---- MODULE Spec2Model ----
(***************************************************************************)
(* A model of the blink(1) control library: the device command layer       *)
(* (device_cmd.go), the transport session (Device: write, doubleWrite,     *)
(* read, delayRead, Close), the conversion helpers and the Controller      *)
(* (pattern loading and playing, the auto-tickle watchdog goroutine and    *)
(* the manual tickle goroutine).                                           *)
(*                                                                         *)
(* Threads of control: the foreground caller (thread FG), one goroutine    *)
(* per successful StartAutoTickle (threads 1..MaxWatchdogs), the goroutine *)
(* of StartManualTickle (thread MT) and a second caller (thread OT).       *)
(* Every HID transfer is appended to wire, the log of feature reports seen *)
(* by the HID handle.                                                      *)
(* A Go panic that nobody recovers ends the process: crashed records it    *)
(* and no action is enabled afterwards.                                    *)
(***************************************************************************)
EXTENDS Integers, Sequences, FiniteSets, TLC

(* ------------------------------------------------------------------ *)
(* Program constants                                                  *)
(* ------------------------------------------------------------------ *)
cmdBufSize == 9
reportID == 1
maxPattern == 12
maxPattern2 == 32
maxFadeMsec == 655350
maxRepeat == 255
minTimeDur == 10
opsTryTimes == 3
autoTickleMsec == 2000
testDelayMs == 50

\* opcodes: the ASCII codes of 'c' 'n' 'r' 'p' 'S' 'P' 'l' 'R' 'W' 'D' 'v' '!'
OpFade == 99
OpSetNow == 110
OpReadRGB == 114
OpPlay == 112
OpPlayState == 83
OpSetLine == 80
OpLedN == 108
OpReadLine == 82
OpSave == 87
OpTickle == 68
OpVersion == 118
OpTest == 33

(* ------------------------------------------------------------------ *)
(* Bounds of the model                                                *)
(* ------------------------------------------------------------------ *)
\* successful StartAutoTickle calls (goroutines started) in one run
MaxWatchdogs == 2
\* API calls the foreground caller makes in one run
MaxCalls == 3
\* feature reports kept in the wire log (the log keeps the first MaxWire)
MaxWire == 3
\* light states in a pattern given to PlayPattern / LoadPattern
MaxStates == 2
\* transport failures injected in one run of LockSpec or PatternSpec
MaxFails == 1
\* every fade time from 0 to MaxFadeInput msec is given to the fade-time
\* codec, and so is every one within MaxFadeInput \div 100 of the clamp
MaxFadeInput == 3000
\* states in a sequence given to the text codec
MaxTextLen == 2

FG == 0
Watchdogs == 1..MaxWatchdogs
MT == MaxWatchdogs + 1
OT == MaxWatchdogs + 2
Threads == 0..(MaxWatchdogs + 2)

(* ------------------------------------------------------------------ *)
(* Byte codec (helper functions)                                      *)
(* ------------------------------------------------------------------ *)
gammaE == <<
    0, 0, 0, 0, 0, 0, 0, 0, 0, 0, 0, 0, 0, 0, 0, 0,
    0, 0, 0, 0, 0, 0, 1, 1, 1, 1, 1, 1, 1, 2, 2, 2,
    2, 2, 2, 3, 3, 3, 3, 3, 4, 4, 4, 4, 5, 5, 5, 5,
    6, 6, 6, 7, 7, 7, 8, 8, 8, 9, 9, 9, 10, 10, 11, 11,
    11, 12, 12, 13, 13, 13, 14, 14, 15, 15, 16, 16, 17, 17, 18, 18,
    19, 19, 20, 21, 21, 22, 22, 23, 23, 24, 25, 25, 26, 27, 27, 28,
    29, 29, 30, 31, 31, 32, 33, 34, 34, 35, 36, 37, 37, 38, 39, 40,
    40, 41, 42, 43, 44, 45, 46, 46, 47, 48, 49, 50, 51, 52, 53, 54,
    55, 56, 57, 58, 59, 60, 61, 62, 63, 64, 65, 66, 67, 68, 69, 70,
    71, 72, 73, 74, 76, 77, 78, 79, 80, 81, 83, 84, 85, 86, 88, 89,
    90, 91, 93, 94, 95, 96, 98, 99, 100, 102, 103, 104, 106, 107, 109, 110,
    111, 113, 114, 116, 117, 119, 120, 121, 123, 124, 126, 128, 129, 131, 132, 134,
    135, 137, 138, 140, 142, 143, 145, 146, 148, 150, 151, 153, 155, 157, 158, 160,
    162, 163, 165, 167, 169, 170, 172, 174, 176, 178, 179, 181, 183, 185, 187, 189,
    191, 193, 194, 196, 198, 200, 202, 204, 206, 208, 210, 212, 214, 216, 218, 220,
    222, 224, 227, 229, 231, 233, 235, 237, 239, 241, 244, 246, 248, 250, 252, 255 >>

\* byte(x): the low 8 bits of an unsigned integer
Byte(x) == x % 256

getMaxPattern(g) == IF g >= 2 THEN maxPattern2 ELSE maxPattern

\* (th, tl): clamp, divide by 10, split big-endian
convDurMsToFadeMs(durMs) ==
    LET d == (IF durMs > maxFadeMsec THEN maxFadeMsec ELSE durMs) \div 10
    IN  << Byte(d \div 256), Byte(d) >>

convFadeMsToDurMs(th, tl) == (th * 256 + tl) * 10

convBoolToByte(b) == IF b THEN 1 ELSE 0

convByteToBool(b) == b # 0

\* LEDIndex.ToByte: 0 for an index outside LEDAll..LED2
LEDToByte(l) == IF l < 0 \/ l > 2 THEN 0 ELSE l

\* (mutant of degammaRGB) the colour is passed through unchanged
degammaRGBIdentity(r, g, b) == << r, g, b >>

degammaRGB(r, g, b) == << gammaE[r + 1], gammaE[g + 1], gammaE[b + 1] >>

\* color.RGBA{r, g, b, 0xff}
convRGBToColor(r, g, b) == [r |-> r, g |-> g, b |-> b, a |-> 255]

\* c.RGBA() of an opaque colour yields each channel as 16 bits (x * 0x101);
\* the high byte of each is returned
convColorToRGB(c) ==
    << Byte((c.r * 257) \div 256), Byte((c.g * 257) \div 256), Byte((c.b * 257) \div 256) >>

\* LightState to DeviceLightState: colour to RGB, fade duration to msec
convLightState(st) ==
    LET c == convColorToRGB(st)
    IN  [R |-> c[1], G |-> c[2], B |-> c[3], LED |-> st.led, FadeTimeMsec |-> st.fade]

\* DeviceLightState to LightState
convDeviceLightState(st) ==
    LET c == convRGBToColor(st.R, st.G, st.B)
    IN  [r |-> c.r, g |-> c.g, b |-> c.b, led |-> st.LED, fade |-> st.FadeTimeMsec]

\* rc(n) of n = num / den >= 0: int(n + 0.5)
RoundHalfUp(num, den) == (2 * num + den) \div (2 * den)

\* convHSBToRGB for a hue in whole degrees >= 0 and saturation and brightness
\* in whole percent: h mod 360, s and v clamped to [0, 100], the sector
\* i = h div 60 with f = (h mod 60) / 60, then p, q, t scaled by 255 and
\* rounded
convHSBToRGB(h, s, v) ==
    LET hh == h % 360
        ss == IF s < 0 THEN 0 ELSE IF s > 100 THEN 100 ELSE s
        vv == IF v < 0 THEN 0 ELSE IF v > 100 THEN 100 ELSE v
        i == hh \div 60
        fm == hh % 60
        cv == RoundHalfUp(255 * vv, 100)
        cp == RoundHalfUp(255 * vv * (100 - ss), 10000)
        cq == RoundHalfUp(255 * vv * (6000 - ss * fm), 600000)
        ct == RoundHalfUp(255 * vv * (6000 - ss * (60 - fm)), 600000)
    IN  CASE i = 0 -> << cv, ct, cp >>
          [] i = 1 -> << cq, cv, cp >>
          [] i = 2 -> << cp, cv, ct >>
          [] i = 3 -> << cp, cq, cv >>
          [] i = 4 -> << ct, cp, cv >>
          [] OTHER -> << cv, cp, cq >>

(* ------------------------------------------------------------------ *)
(* State                                                              *)
(* ------------------------------------------------------------------ *)
VARIABLES
    gen,        \* Device.gen: the generation of the opened device
    devOpen,    \* Device.dev # nil
    hidClosed,  \* how many times the HID handle's Close was called
    mu,         \* Device.mu is locked
    cmu,        \* Controller.mu is locked by the foreground caller
    quitCh,     \* Controller.quitCh: 0 is nil, else the channel's identity
    closedCh,   \* the channels that have been closed
    nwd,        \* auto-tickle goroutines started so far
    wd,         \* the auto-tickle goroutines
    mt,         \* the manual tickle goroutine and its channel
    dv,         \* each thread's position inside a Device transport primitive
    fg,         \* the foreground caller's position inside an API call
    wire,       \* the feature reports transferred on the HID handle, in order
    failBudget, \* transport failures that may still be injected
    crashed,    \* "" or the panic that ended the process
    lastCall,   \* the last API call that returned or panicked
    ncalls,     \* API calls made so far
    calc,       \* a helper function under test: its input, progress and result
    other       \* a second caller's position inside the one API call it makes

vars == << gen, other, devOpen, hidClosed, mu, cmu, quitCh, closedCh, nwd, wd, mt, dv,
           fg, wire, failBudget, crashed, lastCall, ncalls, calc >>

Alive == crashed = ""

DvIdle == [pc |-> "idle", prim |-> "none", bufs |-> << >>, n |-> 0, res |-> "ok",
           resp |-> << >>]

WdNone == [pc |-> "none", q |-> 0, ticked |-> FALSE, s |-> 0, e |-> 0,
           keep |-> FALSE, tmo |-> 0, dis |-> 0]

MtNone == [pc |-> "none", open |-> FALSE, s |-> 0, e |-> 0, keep |-> FALSE,
           tmo |-> 0, sent |-> 0]

FgIdle == [op |-> "idle", pc |-> "idle", s |-> 0, e |-> 0, rep |-> 0,
           sts |-> << >>, end |-> 0, lend |-> 0, k |-> 0, pos |-> 0, try |-> 0,
           tot |-> 0, col |-> << >>, ls |-> << >>, log |-> << >>]

\* no helper function has been applied
NoCalc == [op |-> "none"]

\* the second caller has made no call
OtIdle == [op |-> "none", pc |-> "idle", ret |-> "none"]

\* Controller.mu is locked by the second caller: it is inside the Device call
\* of an operation that took the lock (Close takes none)
OtHoldsControllerLock == other.pc = "dev" /\ other.op # "Close"

NoCall == [op |-> "none", ret |-> "none", s |-> 0, e |-> 0, rep |-> 0,
           sts |-> << >>, col |-> << >>, tmo |-> 0, log |-> << >>, spawned |-> 0,
           slept |-> 0, val |-> << >>, wasOpen |-> TRUE, pre |-> "Idle0"]

(* ------------------------------------------------------------------ *)
(* Command buffer builders (device_cmd.go).  A builder yields the     *)
(* transport primitive to call and its buffers, or an argument error  *)
(* returned before any I/O.                                           *)
(* ------------------------------------------------------------------ *)
Call(prim, bufs) == [err |-> FALSE, prim |-> prim, bufs |-> bufs]

ErrCall == [err |-> TRUE, prim |-> "none", bufs |-> << >>]

\* nil error iff pos is in [0, patt_max)
checkPatternPos(pos) == pos < getMaxPattern(gen)

FadeToRGB(r, g, b, fadeMsec, ledN) ==
    LET f == convDurMsToFadeMs(fadeMsec)
    IN  Call("write", << << reportID, OpFade, r, g, b, f[1], f[2], LEDToByte(ledN), 0 >> >>)

\* (mutant of SetRGBNow) the fade bytes are filled as FadeToRGB fills them
SetRGBNowWithFade(r, g, b, ledN) ==
    Call("write", << << reportID, OpSetNow, r, g, b, 0, 100, LEDToByte(ledN), 0 >> >>)

SetRGBNow(r, g, b, ledN) ==
    Call("write", << << reportID, OpSetNow, r, g, b, 0, 0, LEDToByte(ledN), 0 >> >>)

ReadRGB(ledN) ==
    Call("read", << << reportID, OpReadRGB, 0, 0, 0, 0, 0, LEDToByte(ledN), 0 >> >>)

PlayLoop(play, posStart, posEnd, times) ==
    IF ~checkPatternPos(posStart) \/ ~checkPatternPos(posEnd) THEN ErrCall
    ELSE LET pe == IF posEnd = 0 THEN getMaxPattern(gen) - 1 ELSE posEnd
         IN  Call("write", << << reportID, OpPlay, convBoolToByte(play),
                                 Byte(posStart), Byte(pe), Byte(times), 0, 0, 0 >> >>)

ReadPlaystate ==
    Call("read", << << reportID, OpPlayState, 0, 0, 0, 0, 0, 0, 0 >> >>)

\* (mutant of SetPatternLine) the two buffers sent by two calls of write
SetPatternLineTwoWrites(pos, st) ==
    IF ~checkPatternPos(pos) THEN ErrCall
    ELSE LET f == convDurMsToFadeMs(st.FadeTimeMsec)
             buf2 == << reportID, OpSetLine, st.R, st.G, st.B, f[1], f[2], Byte(pos), 0 >>
             buf1 == << reportID, OpLedN, LEDToByte(st.LED), 0, 0, 0, 0, 0, 0 >>
         IN  IF gen >= 2 THEN Call("write", << buf1, buf2 >>)
             ELSE Call("write", << buf2 >>)

SetPatternLine(pos, st) ==
    IF ~checkPatternPos(pos) THEN ErrCall
    ELSE LET f == convDurMsToFadeMs(st.FadeTimeMsec)
             buf2 == << reportID, OpSetLine, st.R, st.G, st.B, f[1], f[2], Byte(pos), 0 >>
             buf1 == << reportID, OpLedN, LEDToByte(st.LED), 0, 0, 0, 0, 0, 0 >>
         IN  IF gen >= 2 THEN Call("doubleWrite", << buf1, buf2 >>)
             ELSE Call("write", << buf2 >>)

ReadPatternLine(pos) ==
    IF ~checkPatternPos(pos) THEN ErrCall
    ELSE Call("read", << << reportID, OpReadLine, 0, 0, 0, 0, 0, Byte(pos), 0 >> >>)

SavePattern ==
    Call("write", << << reportID, OpSave, 190, 239, 202, 254, 0, 0, 0 >> >>)

\* (mutant of SetTickleMode) the end position is stored as PlayLoop stores it
SetTickleModeInclusive(play, keep, posStart, posEnd, timeoutMsec) ==
    IF ~checkPatternPos(posStart) \/ ~checkPatternPos(posEnd) THEN ErrCall
    ELSE LET pe == IF posEnd = 0 THEN getMaxPattern(gen) - 1 ELSE posEnd
             f == convDurMsToFadeMs(timeoutMsec)
         IN  Call("write", << << reportID, OpTickle, convBoolToByte(play), f[1], f[2],
                                 convBoolToByte(keep), Byte(posStart), Byte(pe), 0 >> >>)

\* (mutant of SetTickleMode) an end position of 0 is written as it is
SetTickleModeZeroEnd(play, keep, posStart, posEnd, timeoutMsec) ==
    IF ~checkPatternPos(posStart) \/ ~checkPatternPos(posEnd) THEN ErrCall
    ELSE LET pe == IF posEnd = 0 THEN 0 ELSE posEnd + 1
             f == convDurMsToFadeMs(timeoutMsec)
         IN  Call("write", << << reportID, OpTickle, convBoolToByte(play), f[1], f[2],
                                 convBoolToByte(keep), Byte(posStart), Byte(pe), 0 >> >>)

SetTickleMode(play, keep, posStart, posEnd, timeoutMsec) ==
    IF ~checkPatternPos(posStart) \/ ~checkPatternPos(posEnd) THEN ErrCall
    ELSE LET pe == IF posEnd = 0 THEN getMaxPattern(gen) ELSE posEnd + 1
             f == convDurMsToFadeMs(timeoutMsec)
         IN  Call("write", << << reportID, OpTickle, convBoolToByte(play), f[1], f[2],
                                 convBoolToByte(keep), Byte(posStart), Byte(pe), 0 >> >>)

GetVersion ==
    Call("read", << << reportID, OpVersion, 0, 0, 0, 0, 0, 0, 0 >> >>)

Test ==
    Call("delayRead", << << reportID, OpTest, 0, 0, 0, 0, 0, 0, 0 >> >>)

\* (mutant of isPosRangeValid) the end is not compared with the capacity
isPosRangeValidNoCap(start, end) ==
    LET mp == getMaxPattern(gen)
    IN  (start <= end) \/ (start < mp /\ end = 0)

\* (mutant of isPosRangeValid) an end of 0 is not taken as the last position
isPosRangeValidNoZero(start, end) ==
    LET mp == getMaxPattern(gen)
    IN  start <= end /\ end < mp

\* (start <= end && end < mp) || (start < mp && end == 0)
isPosRangeValid(start, end) ==
    LET mp == getMaxPattern(gen)
    IN  (start <= end /\ end < mp) \/ (start < mp /\ end = 0)

(* ------------------------------------------------------------------ *)
(* Transport session (Device.write, doubleWrite, read, delayRead,     *)
(* Close), one step per lock acquisition and per HID transfer.        *)
(* ------------------------------------------------------------------ *)
\* the thread enters a transport primitive (or returns the builder's error)
Begin(call) ==
    IF call.err THEN [DvIdle EXCEPT !.pc = "ret", !.res = "err"]
    ELSE [DvIdle EXCEPT !.pc = "lock", !.prim = call.prim, !.bufs = call.bufs]

\* the log keeps the first MaxWire transfers
Log(entry) == IF Len(wire) < MaxWire THEN Append(wire, entry) ELSE wire

\* the thread is between b1.mu.Lock() and the deferred b1.mu.Unlock()
InCS(t) == dv[t].pc = "cs"

CSCount == Cardinality({t \in Threads : InCS(t)})

Outcomes == IF failBudget > 0 THEN {TRUE, FALSE} ELSE {TRUE}

\* (mutant of DevLock) the primitive goes on without waiting for the mutex
DevLockNoWait(t) ==
    /\ Alive
    /\ dv[t].pc = "lock"
    /\ mu' = TRUE
    /\ dv' = [dv EXCEPT ![t].pc = "cs"]
    /\ UNCHANGED << calc, gen, other, devOpen, hidClosed, cmu, quitCh, closedCh, nwd, wd, mt, fg,
                    wire, failBudget, crashed, lastCall, ncalls >>

\* b1.mu.Lock(): blocks while the mutex is held
DevLock(t) ==
    /\ Alive
    /\ dv[t].pc = "lock"
    /\ ~mu
    /\ mu' = TRUE
    /\ dv' = [dv EXCEPT ![t].pc = "cs"]
    /\ UNCHANGED << calc, gen, other, devOpen, hidClosed, cmu, quitCh, closedCh, nwd, wd, mt, fg,
                    wire, failBudget, crashed, lastCall, ncalls >>

\* (mutant of DevWrite) write returns without the deferred unlock
DevWriteKeepsLock(t) ==
    /\ Alive
    /\ dv[t].pc = "cs"
    /\ dv[t].prim \in {"write", "doubleWrite"}
    /\ devOpen
    /\ \E ok \in Outcomes :
         LET d == dv[t]
             last == ~ok \/ d.n + 1 = Len(d.bufs)
             keeps == ~last /\ d.prim = "doubleWrite"
         IN  /\ wire' = Log([buf |-> d.bufs[d.n + 1], by |-> t, kind |-> "W",
                             ok |-> ok, held |-> mu /\ CSCount = 1])
             /\ failBudget' = IF ok THEN failBudget ELSE failBudget - 1
             /\ mu' = mu
             /\ dv' = [dv EXCEPT ![t] = [d EXCEPT !.n = d.n + 1,
                                                   !.pc = IF last THEN "ret"
                                                          ELSE IF keeps THEN "cs"
                                                          ELSE "lock",
                                                   !.res = IF ok THEN "ok" ELSE "err"]]
             /\ fg' = IF t = FG
                      THEN [fg EXCEPT !.log = Append(fg.log,
                                [buf |-> d.bufs[d.n + 1], kind |-> "W", ok |-> ok,
                                 resp |-> << >>])]
                      ELSE fg
    /\ UNCHANGED << calc, gen, other, devOpen, hidClosed, cmu, quitCh, closedCh, nwd, wd, mt,
                    crashed, lastCall, ncalls >>

\* b1.dev.WriteFeature(buf) of write and doubleWrite; the deferred unlock
\* runs when the primitive returns
DevWrite(t) ==
    /\ Alive
    /\ dv[t].pc = "cs"
    /\ dv[t].prim \in {"write", "doubleWrite"}
    /\ devOpen
    /\ \E ok \in Outcomes :
         LET d == dv[t]
             last == ~ok \/ d.n + 1 = Len(d.bufs)
             \* doubleWrite keeps the lock for its second buffer; a further
             \* buffer of "write" is a further call of write
             keeps == ~last /\ d.prim = "doubleWrite"
         IN  /\ wire' = Log([buf |-> d.bufs[d.n + 1], by |-> t, kind |-> "W",
                             ok |-> ok, held |-> mu /\ CSCount = 1])
             /\ failBudget' = IF ok THEN failBudget ELSE failBudget - 1
             /\ mu' = IF keeps THEN mu ELSE FALSE
             /\ dv' = [dv EXCEPT ![t] = [d EXCEPT !.n = d.n + 1,
                                                   !.pc = IF last THEN "ret"
                                                          ELSE IF keeps THEN "cs"
                                                          ELSE "lock",
                                                   !.res = IF ok THEN "ok" ELSE "err"]]
             /\ fg' = IF t = FG
                      THEN [fg EXCEPT !.log = Append(fg.log,
                                [buf |-> d.bufs[d.n + 1], kind |-> "W", ok |-> ok,
                                 resp |-> << >>])]
                      ELSE fg
    /\ UNCHANGED << calc, gen, other, devOpen, hidClosed, cmu, quitCh, closedCh, nwd, wd, mt,
                    crashed, lastCall, ncalls >>

\* a method call on the nil b1.dev: a nil pointer dereference panic; the
\* deferred unlocks run and the process ends
DevPanic(t) ==
    /\ Alive
    /\ dv[t].pc = "cs"
    /\ dv[t].prim # "close"
    /\ ~devOpen
    /\ crashed' = "nil pointer dereference"
    /\ mu' = FALSE
    /\ cmu' = FALSE
    /\ lastCall' = IF t = FG
                   THEN [NoCall EXCEPT !.op = fg.op, !.ret = "panic", !.log = fg.log,
                                       !.s = fg.s, !.e = fg.e, !.rep = fg.rep,
                                       !.sts = fg.sts, !.wasOpen = FALSE,
                                       !.pre = lastCall.pre]
                   ELSE lastCall
    /\ dv' = [dv EXCEPT ![t].pc = "panic"]
    /\ UNCHANGED << calc, gen, other, devOpen, hidClosed, quitCh, closedCh, nwd, wd, mt, fg,
                    wire, failBudget, ncalls >>

\* (mutant of DevClose) the handle is closed without the nil check
DevCloseUnchecked(t) ==
    /\ Alive
    /\ dv[t].pc = "cs"
    /\ dv[t].prim = "close"
    /\ hidClosed' = hidClosed + 1
    /\ devOpen' = FALSE
    /\ mu' = FALSE
    /\ dv' = [dv EXCEPT ![t].pc = "ret", ![t].res = "ok"]
    /\ UNCHANGED << calc, gen, other, cmu, quitCh, closedCh, nwd, wd, mt, fg, wire, failBudget,
                    crashed, lastCall, ncalls >>

\* Device.Close under the lock: close the handle once and forget it
DevClose(t) ==
    /\ Alive
    /\ dv[t].pc = "cs"
    /\ dv[t].prim = "close"
    /\ hidClosed' = IF devOpen THEN hidClosed + 1 ELSE hidClosed
    /\ devOpen' = FALSE
    /\ mu' = FALSE
    /\ dv' = [dv EXCEPT ![t].pc = "ret", ![t].res = "ok"]
    /\ UNCHANGED << calc, gen, other, cmu, quitCh, closedCh, nwd, wd, mt, fg, wire, failBudget,
                    crashed, lastCall, ncalls >>

\* the pattern line the device holds at position pos: a colour, LED and
\* fade time (0 or 10 msec) that differ from line to line
DevLine(pos) ==
    [R |-> (200 + 37 * pos) % 256, G |-> (100 + 11 * pos) % 256,
     B |-> (50 + 5 * pos) % 256, tl |-> pos % 2, LED |-> pos % 3]

\* the colours the device may report as its current one
DevColors == { << 200, 100, 50 >>, << 0, 255, 37 >> }

\* the firmware versions (major, minor digit) the device may report
DevVersions == { << 2, 4 >>, << 3, 3 >> }

\* what the device may answer to a read of buf: the pattern line at the
\* position asked for, its current colour, its firmware version as two ASCII
\* digits; any other command echoes its buffer
Responses(buf) ==
    CASE buf[2] = OpReadLine ->
           LET l == DevLine(buf[8])
           IN  { << reportID, OpReadLine, l.R, l.G, l.B, 0, l.tl, l.LED, 0 >> }
      [] buf[2] = OpReadRGB ->
           { [buf EXCEPT ![3] = c[1], ![4] = c[2], ![5] = c[3]] : c \in DevColors }
      [] buf[2] = OpVersion ->
           { [buf EXCEPT ![4] = 48 + v[1], ![5] = 48 + v[2]] : v \in DevVersions }
      [] OTHER -> { buf }

\* read and delayRead: WriteFeature (its error is dropped), then ReadFeature,
\* whose error is the primitive's result
DevRead(t) ==
    /\ Alive
    /\ dv[t].pc = "cs"
    /\ dv[t].prim \in {"read", "delayRead"}
    /\ devOpen
    /\ \/ dv[t].n = 0
       \/ dv[t].prim = "read" /\ dv[t].n = 1
       \/ dv[t].prim = "delayRead" /\ dv[t].n = 2
    /\ \E ok \in Outcomes :
         LET d == dv[t]
             last == d.n > 0
             kind == IF last THEN "R" ELSE "W"
         IN  \E r \in (IF last /\ ok THEN Responses(d.bufs[1]) ELSE {<< >>}) :
             /\ wire' = Log([buf |-> d.bufs[1], by |-> t, kind |-> kind,
                             ok |-> ok, held |-> mu /\ CSCount = 1])
             /\ failBudget' = IF ok THEN failBudget ELSE failBudget - 1
             /\ mu' = IF last THEN FALSE ELSE mu
             /\ dv' = [dv EXCEPT ![t] = [d EXCEPT !.n = d.n + 1,
                                                   !.pc = IF last THEN "ret" ELSE "cs",
                                                   !.res = IF last /\ ~ok THEN "err" ELSE "ok",
                                                   !.resp = r]]
             /\ fg' = IF t = FG
                      THEN [fg EXCEPT !.log = Append(fg.log,
                                [buf |-> d.bufs[1], kind |-> kind, ok |-> ok,
                                 resp |-> r])]
                      ELSE fg
    /\ UNCHANGED << calc, gen, other, devOpen, hidClosed, cmu, quitCh, closedCh, nwd, wd, mt,
                    crashed, lastCall, ncalls >>

\* delayRead: time.Sleep(delayMs) between the write and the read-back
DevSleep(t) ==
    /\ Alive
    /\ dv[t].pc = "cs"
    /\ dv[t].prim = "delayRead"
    /\ dv[t].n = 1
    /\ testDelayMs > 0
    /\ dv' = [dv EXCEPT ![t].n = 2]
    /\ UNCHANGED << calc, gen, other, devOpen, hidClosed, mu, cmu, quitCh, closedCh, nwd, wd, mt,
                    fg, wire, failBudget, crashed, lastCall, ncalls >>

(* ------------------------------------------------------------------ *)
(* Auto-tickle watchdog (Controller.StartAutoTickle, StopAutoTickle)  *)
(* ------------------------------------------------------------------ *)
\* the watchdog lifecycle as the controller's fields show it
Lifecycle ==
    IF quitCh = 0 THEN "Idle0"
    ELSE IF quitCh \in closedCh THEN "Stopped" ELSE "Running"

\* goroutines started and not yet returned
AliveWatchdogs == {w \in Watchdogs : wd[w].pc \notin {"none", "done"}}

CallRec(op, s, e) ==
    [NoCall EXCEPT !.op = op, !.s = s, !.e = e, !.wasOpen = devOpen,
                   !.pre = Lifecycle]

\* (mutant of StartAutoTickle) the timeout is the tick period itself
StartAutoTickleNoMargin(posStart, posEnd, keepOld) ==
    /\ Alive
    /\ fg.op = "idle"
    /\ ~OtHoldsControllerLock
    /\ ncalls < MaxCalls
    /\ ncalls' = ncalls + 1
    /\ LET call == CallRec("StartAutoTickle", posStart, posEnd)
       IN  IF ~isPosRangeValid(posStart, posEnd)
           THEN /\ lastCall' = [call EXCEPT !.ret = "errInvalidPosition"]
                /\ UNCHANGED << quitCh, closedCh, nwd, wd, crashed >>
           ELSE IF quitCh # 0 /\ quitCh \in closedCh
           THEN /\ crashed' = "close of closed channel"
                /\ lastCall' = [call EXCEPT !.ret = "panic"]
                /\ UNCHANGED << quitCh, closedCh, nwd, wd >>
           ELSE /\ nwd < MaxWatchdogs
                /\ closedCh' = IF quitCh # 0 THEN closedCh \cup {quitCh} ELSE closedCh
                /\ quitCh' = nwd + 1
                /\ nwd' = nwd + 1
                /\ wd' = [wd EXCEPT ![nwd + 1] =
                            [pc |-> "loop", q |-> 0, ticked |-> FALSE, s |-> posStart,
                             e |-> posEnd, keep |-> keepOld,
                             tmo |-> autoTickleMsec,
                             dis |-> 0]]
                /\ lastCall' = [call EXCEPT !.ret = "ok", !.spawned = 1]
                /\ UNCHANGED crashed
    /\ UNCHANGED << calc, gen, other, devOpen, hidClosed, mu, cmu, mt, dv, fg, wire, failBudget >>

\* (mutant of StartAutoTickle) the running watchdog is stopped before the
\* range is validated
StartAutoTickleStopsFirst(posStart, posEnd, keepOld) ==
    /\ Alive
    /\ fg.op = "idle"
    /\ ~OtHoldsControllerLock
    /\ ncalls < MaxCalls
    /\ ncalls' = ncalls + 1
    /\ LET call == CallRec("StartAutoTickle", posStart, posEnd)
       IN  IF quitCh # 0 /\ quitCh \in closedCh
           THEN /\ crashed' = "close of closed channel"
                /\ lastCall' = [call EXCEPT !.ret = "panic"]
                /\ UNCHANGED << quitCh, closedCh, nwd, wd >>
           ELSE IF ~isPosRangeValid(posStart, posEnd)
           THEN /\ lastCall' = [call EXCEPT !.ret = "errInvalidPosition"]
                /\ closedCh' = IF quitCh # 0 THEN closedCh \cup {quitCh} ELSE closedCh
                /\ UNCHANGED << quitCh, nwd, wd, crashed >>
           ELSE /\ nwd < MaxWatchdogs
                /\ closedCh' = IF quitCh # 0 THEN closedCh \cup {quitCh} ELSE closedCh
                /\ quitCh' = nwd + 1
                /\ nwd' = nwd + 1
                /\ wd' = [wd EXCEPT ![nwd + 1] =
                            [pc |-> "loop", q |-> 0, ticked |-> FALSE, s |-> posStart,
                             e |-> posEnd, keep |-> keepOld,
                             tmo |-> autoTickleMsec + (autoTickleMsec \div 2),
                             dis |-> 0]]
                /\ lastCall' = [call EXCEPT !.ret = "ok", !.spawned = 1]
                /\ UNCHANGED crashed
    /\ UNCHANGED << calc, gen, other, devOpen, hidClosed, mu, cmu, mt, dv, fg, wire, failBudget >>

StartAutoTickle(posStart, posEnd, keepOld) ==
    /\ Alive
    /\ fg.op = "idle"
    /\ ~OtHoldsControllerLock
    /\ ncalls < MaxCalls
    /\ ncalls' = ncalls + 1
    /\ LET call == CallRec("StartAutoTickle", posStart, posEnd)
       IN  IF ~isPosRangeValid(posStart, posEnd)
           THEN /\ lastCall' = [call EXCEPT !.ret = "errInvalidPosition"]
                /\ UNCHANGED << quitCh, closedCh, nwd, wd, crashed >>
           ELSE IF quitCh # 0 /\ quitCh \in closedCh
           THEN \* close of a closed channel panics
                /\ crashed' = "close of closed channel"
                /\ lastCall' = [call EXCEPT !.ret = "panic"]
                /\ UNCHANGED << quitCh, closedCh, nwd, wd >>
           ELSE /\ nwd < MaxWatchdogs
                /\ closedCh' = IF quitCh # 0 THEN closedCh \cup {quitCh} ELSE closedCh
                /\ quitCh' = nwd + 1
                /\ nwd' = nwd + 1
                /\ wd' = [wd EXCEPT ![nwd + 1] =
                            [pc |-> "loop", q |-> 0, ticked |-> FALSE, s |-> posStart,
                             e |-> posEnd, keep |-> keepOld,
                             tmo |-> autoTickleMsec + (autoTickleMsec \div 2),
                             dis |-> 0]]
                /\ lastCall' = [call EXCEPT !.ret = "ok", !.spawned = 1]
                /\ UNCHANGED crashed
    /\ UNCHANGED << calc, gen, other, devOpen, hidClosed, mu, cmu, mt, dv, fg, wire, failBudget >>

StopAutoTickle ==
    /\ Alive
    /\ fg.op = "idle"
    /\ ~OtHoldsControllerLock
    /\ ncalls < MaxCalls
    /\ ncalls' = ncalls + 1
    /\ LET call == CallRec("StopAutoTickle", 0, 0)
       IN  IF quitCh = 0
           THEN /\ lastCall' = [call EXCEPT !.ret = "ok"]
                /\ UNCHANGED << closedCh, crashed >>
           ELSE IF quitCh \in closedCh
           THEN /\ crashed' = "close of closed channel"
                /\ lastCall' = [call EXCEPT !.ret = "panic"]
                /\ UNCHANGED closedCh
           ELSE /\ closedCh' = closedCh \cup {quitCh}
                /\ lastCall' = [call EXCEPT !.ret = "ok"]
                /\ UNCHANGED crashed
    /\ UNCHANGED << calc, gen, other, devOpen, hidClosed, mu, cmu, quitCh, nwd, wd, mt, dv, fg,
                    wire, failBudget >>

\* the ticker of a goroutine fires; its channel holds one tick
Tick(w) ==
    /\ Alive
    /\ wd[w].pc \in {"loop", "wait", "enable"}
    /\ ~wd[w].ticked
    /\ wd' = [wd EXCEPT ![w].ticked = TRUE]
    /\ UNCHANGED << calc, gen, other, devOpen, hidClosed, mu, cmu, quitCh, closedCh, nwd, mt, dv,
                    fg, wire, failBudget, crashed, lastCall, ncalls >>

\* entering select: the goroutine reads the field c.quitCh (without the lock)
WSelect(w) ==
    /\ Alive
    /\ wd[w].pc = "loop"
    /\ wd' = [wd EXCEPT ![w].pc = "wait", ![w].q = quitCh]
    /\ UNCHANGED << calc, gen, other, devOpen, hidClosed, mu, cmu, quitCh, closedCh, nwd, mt, dv,
                    fg, wire, failBudget, crashed, lastCall, ncalls >>

\* case <-ticker.C: SetTickleMode(true, keepOld, posStart, posEnd, timeoutMsec)
WTick(w) ==
    /\ Alive
    /\ wd[w].pc = "wait"
    /\ wd[w].ticked
    /\ wd' = [wd EXCEPT ![w].pc = "enable", ![w].ticked = FALSE]
    /\ dv' = [dv EXCEPT ![w] =
                Begin(SetTickleMode(TRUE, wd[w].keep, wd[w].s, wd[w].e, wd[w].tmo))]
    /\ UNCHANGED << calc, gen, other, devOpen, hidClosed, mu, cmu, quitCh, closedCh, nwd, mt, fg,
                    wire, failBudget, crashed, lastCall, ncalls >>

\* the enable command returned; its error is dropped and the loop goes on
WEnableRet(w) ==
    /\ Alive
    /\ wd[w].pc = "enable"
    /\ dv[w].pc = "ret"
    /\ wd' = [wd EXCEPT ![w].pc = "loop"]
    /\ dv' = [dv EXCEPT ![w] = DvIdle]
    /\ UNCHANGED << calc, gen, other, devOpen, hidClosed, mu, cmu, quitCh, closedCh, nwd, mt, fg,
                    wire, failBudget, crashed, lastCall, ncalls >>

\* case <-c.quitCh on the channel read at the select: ticker.Stop() and
\* SetTickleMode(false, keepOld, 0, 0, 0)
WQuit(w) ==
    /\ Alive
    /\ wd[w].pc = "wait"
    /\ wd[w].q # 0
    /\ wd[w].q \in closedCh
    /\ wd' = [wd EXCEPT ![w].pc = "disable"]
    /\ dv' = [dv EXCEPT ![w] = Begin(SetTickleMode(FALSE, wd[w].keep, 0, 0, 0))]
    /\ UNCHANGED << calc, gen, other, devOpen, hidClosed, mu, cmu, quitCh, closedCh, nwd, mt, fg,
                    wire, failBudget, crashed, lastCall, ncalls >>

\* the disable command returned: the goroutine returns
WDisableRet(w) ==
    /\ Alive
    /\ wd[w].pc = "disable"
    /\ dv[w].pc = "ret"
    /\ wd' = [wd EXCEPT ![w].pc = "done", ![w].dis = IF dv[w].n > 0 THEN 1 ELSE 0]
    /\ dv' = [dv EXCEPT ![w] = DvIdle]
    /\ UNCHANGED << calc, gen, other, devOpen, hidClosed, mu, cmu, quitCh, closedCh, nwd, mt, fg,
                    wire, failBudget, crashed, lastCall, ncalls >>

(* ------------------------------------------------------------------ *)
(* Foreground calls that are one Device call: Close and the low-level *)
(* device commands                                                    *)
(* ------------------------------------------------------------------ *)
DeviceCmds == {"FadeToRGB", "SetRGBNow", "ReadRGB", "PlayLoop", "ReadPlaystate",
               "SetPatternLine", "ReadPatternLine", "SavePattern", "SetTickleMode",
               "GetVersion", "Test"}

\* the command cmd called with pattern position pos (where it takes one)
DeviceCmdCall(cmd, pos) ==
    CASE cmd = "FadeToRGB" -> FadeToRGB(255, 0, 128, 1000, 1)
      [] cmd = "SetRGBNow" -> SetRGBNow(255, 0, 128, 0)
      [] cmd = "ReadRGB" -> ReadRGB(1)
      [] cmd = "PlayLoop" -> PlayLoop(TRUE, 0, pos, 2)
      [] cmd = "ReadPlaystate" -> ReadPlaystate
      [] cmd = "SetPatternLine" ->
            SetPatternLine(pos, [R |-> 255, G |-> 0, B |-> 128, LED |-> 1,
                                 FadeTimeMsec |-> 1000])
      [] cmd = "ReadPatternLine" -> ReadPatternLine(pos)
      [] cmd = "SavePattern" -> SavePattern
      [] cmd = "SetTickleMode" -> SetTickleMode(TRUE, FALSE, 0, pos, 3000)
      [] cmd = "GetVersion" -> GetVersion
      [] OTHER -> Test

DeviceCommand(cmd, pos) ==
    /\ Alive
    /\ fg.op = "idle"
    /\ ncalls < MaxCalls
    /\ ncalls' = ncalls + 1
    /\ fg' = [FgIdle EXCEPT !.op = cmd, !.pc = "dev", !.s = pos]
    /\ dv' = [dv EXCEPT ![FG] = Begin(DeviceCmdCall(cmd, pos))]
    /\ UNCHANGED << calc, gen, other, devOpen, hidClosed, mu, cmu, quitCh, closedCh, nwd, wd, mt,
                    wire, failBudget, crashed, lastCall >>

\* Controller.Close: c.dev.Close(), without the controller lock
Close ==
    /\ Alive
    /\ fg.op = "idle"
    /\ ncalls < MaxCalls
    /\ ncalls' = ncalls + 1
    /\ fg' = [FgIdle EXCEPT !.op = "Close", !.pc = "dev"]
    /\ dv' = [dv EXCEPT ![FG] = Begin(Call("close", << >>))]
    /\ UNCHANGED << calc, gen, other, devOpen, hidClosed, mu, cmu, quitCh, closedCh, nwd, wd, mt,
                    wire, failBudget, crashed, lastCall >>

\* GetVersion: int((buf[3]-'0')*100) + int(buf[4]-'0'), the subtraction and
\* the multiplication being done on bytes
ParseVersion(resp) ==
    Byte(Byte(resp[4] - 48) * 100) + Byte(resp[5] - 48)

\* ReadPatternLine: R, G, B, fade time, LED of the response
ParseLine(resp) ==
    [R |-> resp[3], G |-> resp[4], B |-> resp[5],
     FadeTimeMsec |-> convFadeMsToDurMs(resp[6], resp[7]), LED |-> resp[8]]

\* what a reading operation returns besides its error
ResultOf(op, resp) ==
    CASE op = "ReadRGB" -> << resp[3], resp[4], resp[5] >>
      [] op = "ReadColor" -> convRGBToColor(resp[3], resp[4], resp[5])
      [] op = "ReadPatternLine" -> ParseLine(resp)
      [] op = "GetVersion" -> ParseVersion(resp)
      [] OTHER -> << >>

\* (mutant of FgRet) the operation returns without c.mu.Unlock()
FgRetKeepsLock ==
    /\ Alive
    /\ fg.pc = "dev"
    /\ dv[FG].pc = "ret"
    /\ lastCall' = [CallRec(fg.op, fg.s, fg.e) EXCEPT
                      !.log = fg.log,
                      !.col = fg.col,
                      !.rep = fg.rep,
                      !.val = IF dv[FG].res = "ok" /\ dv[FG].resp # << >>
                              THEN ResultOf(fg.op, dv[FG].resp) ELSE << >>,
                      !.ret = IF fg.op \in {"SavePattern", "WritePattern"} THEN "ok"
                              ELSE dv[FG].res]
    /\ fg' = FgIdle
    /\ dv' = [dv EXCEPT ![FG] = DvIdle]
    /\ UNCHANGED << calc, gen, other, devOpen, hidClosed, mu, cmu, quitCh, closedCh, nwd, wd,
                    mt, wire, failBudget, crashed, ncalls >>

\* the Device call of a one-call operation returned: the operation returns
\* its error (SavePattern drops it)
FgRet ==
    /\ Alive
    /\ fg.pc = "dev"
    /\ dv[FG].pc = "ret"
    /\ lastCall' = [CallRec(fg.op, fg.s, fg.e) EXCEPT
                      !.log = fg.log,
                      !.col = fg.col,
                      !.rep = fg.rep,
                      !.val = IF dv[FG].res = "ok" /\ dv[FG].resp # << >>
                              THEN ResultOf(fg.op, dv[FG].resp) ELSE << >>,
                      !.ret = IF fg.op \in {"SavePattern", "WritePattern"} THEN "ok"
                              ELSE dv[FG].res]
    /\ fg' = FgIdle
    /\ dv' = [dv EXCEPT ![FG] = DvIdle]
    /\ cmu' = FALSE
    /\ UNCHANGED << calc, gen, other, devOpen, hidClosed, mu, quitCh, closedCh, nwd, wd, mt, wire,
                    failBudget, crashed, ncalls >>

(* ------------------------------------------------------------------ *)
(* Specification of the auto-tickle lifecycle                         *)
(* ------------------------------------------------------------------ *)
Gens == {1, 2}

\* how far beyond the capacity the checked positions go
RangeOver == 2

InitWith(budget) ==
    /\ gen \in Gens
    /\ devOpen = TRUE
    /\ hidClosed = 0
    /\ mu = FALSE
    /\ cmu = FALSE
    /\ quitCh = 0
    /\ closedCh = {}
    /\ nwd = 0
    /\ wd = [w \in Watchdogs |-> WdNone]
    /\ mt = MtNone
    /\ dv = [t \in Threads |-> DvIdle]
    /\ fg = FgIdle
    /\ wire = << >>
    /\ failBudget = budget
    /\ crashed = ""
    /\ lastCall = NoCall
    /\ ncalls = 0
    /\ calc = NoCalc
    /\ other = OtIdle

Init == InitWith(0)

\* arguments given to StartAutoTickle: the whole pattern, an inner range that
\* keeps the old pattern, and a range that ends at the capacity (invalid)
TickleArgs == { << 0, 0, FALSE >>, << 1, 2, TRUE >>, << 0, getMaxPattern(gen), FALSE >> }

WatchdogStep(w) ==
    \/ Tick(w)
    \/ WSelect(w)
    \/ WTick(w)
    \/ WEnableRet(w)
    \/ WQuit(w)
    \/ WDisableRet(w)
    \/ DevLock(w)
    \/ DevWrite(w)
    \/ DevPanic(w)

Next ==
    \/ \E a \in TickleArgs : StartAutoTickle(a[1], a[2], a[3])
    \/ StopAutoTickle
    \/ Close
    \/ DevLock(FG)
    \/ DevClose(FG)
    \/ FgRet
    \/ \E w \in Watchdogs : WatchdogStep(w)

Spec == Init /\ [][Next]_vars

\* The Go scheduler runs every runnable goroutine, sync.Mutex hands the lock
\* to a waiter, the ticker keeps firing and select picks a ready case at
\* random, so a ready case is not passed over for ever.  The caller is free
\* to make no further call, but a call it is inside of goes on.
Fairness ==
    /\ \A w \in Watchdogs :
         /\ WF_vars(Tick(w))
         /\ WF_vars(WSelect(w))
         /\ WF_vars(WTick(w))
         /\ WF_vars(WEnableRet(w))
         /\ SF_vars(WQuit(w))
         /\ WF_vars(WDisableRet(w))
         /\ SF_vars(DevLock(w))
         /\ WF_vars(DevWrite(w))
         /\ WF_vars(DevPanic(w))
    /\ SF_vars(DevLock(FG))
    /\ WF_vars(DevClose(FG))
    /\ WF_vars(FgRet)

\* the lifecycle with every StartAutoTickle given the whole pattern
FairNext ==
    \/ StartAutoTickle(0, 0, FALSE)
    \/ StopAutoTickle
    \/ Close
    \/ DevLock(FG)
    \/ DevClose(FG)
    \/ FgRet
    \/ \E w \in Watchdogs : WatchdogStep(w)

FairSpec == Init /\ [][FairNext]_vars /\ Fairness

(* ------------------------------------------------------------------ *)
(* Claims about the auto-tickle lifecycle                             *)
(* ------------------------------------------------------------------ *)

\* C1: in every reachable state at most one auto-tickle goroutine of the
\* controller is alive (started and not yet returned).
AtMostOneWatchdogAlive == Cardinality(AliveWatchdogs) <= 1

\* a goroutine whose channel a later StartAutoTickle closed and replaced
Superseded(w) == wd[w].pc # "none" /\ w < nwd

\* C2: a goroutine replaced by a further StartAutoTickle eventually returns
\* (ticker stopped, final disable written) with no further call; the run is
\* excused if the process has ended.
PriorWatchdogTerminates ==
    \A w \in Watchdogs : Superseded(w) ~> (wd[w].pc = "done" \/ ~Alive)

\* C3: Idle -> Running -> Idle -> Running has no failing transition: a
\* StartAutoTickle with a valid range made after a StopAutoTickle stopped the
\* watchdog returns success and starts a goroutine.
StartAfterStopSucceeds ==
    (lastCall.op = "StartAutoTickle" /\ lastCall.pre = "Stopped"
        /\ isPosRangeValid(lastCall.s, lastCall.e))
    => (lastCall.ret = "ok" /\ lastCall.spawned = 1 /\ Alive)

\* C4: StopAutoTickle with no watchdog running (never started, or stopped by
\* an earlier StopAutoTickle) completes normally, writes nothing and leaves
\* the controller idle.
StopIsIdempotent ==
    (lastCall.op = "StopAutoTickle" /\ lastCall.pre # "Running")
    => (lastCall.ret = "ok" /\ lastCall.log = << >> /\ Lifecycle # "Running" /\ Alive)

\* a goroutine that was the running one when StopAutoTickle closed its channel
StoppedByStop(w) == wd[w].pc # "none" /\ quitCh = w /\ w \in closedCh

IsTickle(x, play) == x.buf[2] = OpTickle /\ x.buf[3] = play

\* C5: a watchdog stopped by StopAutoTickle eventually writes one tickle-mode
\* command with play flag 0, and it writes no enable command after it.
StoppedWatchdogDisables ==
    /\ \A w \in Watchdogs : StoppedByStop(w) ~> (wd[w].dis = 1)
    /\ [](\A i, j \in 1..Len(wire) :
            (i < j /\ wire[i].by = wire[j].by /\ wire[i].by \in Watchdogs
               /\ IsTickle(wire[i], 0))
            => ~IsTickle(wire[j], 1))

(* ------------------------------------------------------------------ *)
(* Manual tickle (Controller.StartManualTickle): the goroutine ranges *)
(* over the returned channel; the caller signals on it and closes it  *)
(* ------------------------------------------------------------------ *)
StartManualTickle(posStart, posEnd, timeout, keepOld) ==
    /\ Alive
    /\ fg.op = "idle"
    /\ ~OtHoldsControllerLock
    /\ ncalls < MaxCalls
    /\ ncalls' = ncalls + 1
    /\ LET call == [CallRec("StartManualTickle", posStart, posEnd) EXCEPT !.tmo = timeout]
       IN  IF ~isPosRangeValid(posStart, posEnd)
           THEN /\ lastCall' = [call EXCEPT !.ret = "errInvalidPosition"]
                /\ UNCHANGED mt
           ELSE IF timeout < minTimeDur
           THEN /\ lastCall' = [call EXCEPT !.ret = "errInvalidTimeout"]
                /\ UNCHANGED mt
           ELSE /\ mt.pc = "none"
                /\ mt' = [pc |-> "recv", open |-> TRUE, s |-> posStart, e |-> posEnd,
                          keep |-> keepOld, tmo |-> timeout, sent |-> 0]
                /\ lastCall' = [call EXCEPT !.ret = "ok", !.spawned = 1]
    /\ UNCHANGED << calc, gen, other, devOpen, hidClosed, mu, cmu, quitCh, closedCh, nwd, wd, dv,
                    fg, wire, failBudget, crashed >>

\* the caller sends a signal; the goroutine receives it and issues
\* SetTickleMode(true, keepOld, posStart, posEnd, timeoutMsec)
ManualSignal ==
    /\ Alive
    /\ fg.op = "idle"
    /\ ncalls < MaxCalls
    /\ mt.pc = "recv"
    /\ mt.open
    /\ ncalls' = ncalls + 1
    /\ mt' = [mt EXCEPT !.pc = "enable", !.sent = mt.sent + 1]
    /\ dv' = [dv EXCEPT ![MT] = Begin(SetTickleMode(TRUE, mt.keep, mt.s, mt.e, mt.tmo))]
    /\ UNCHANGED << calc, gen, other, devOpen, hidClosed, mu, cmu, quitCh, closedCh, nwd, wd, fg,
                    wire, failBudget, crashed, lastCall >>

\* the caller closes the channel
ManualClose ==
    /\ Alive
    /\ fg.op = "idle"
    /\ ncalls < MaxCalls
    /\ mt.pc # "none"
    /\ mt.open
    /\ ncalls' = ncalls + 1
    /\ mt' = [mt EXCEPT !.open = FALSE]
    /\ UNCHANGED << calc, gen, other, devOpen, hidClosed, mu, cmu, quitCh, closedCh, nwd, wd, dv,
                    fg, wire, failBudget, crashed, lastCall >>

\* the enable command returned: back to the receive
MEnableRet ==
    /\ Alive
    /\ mt.pc = "enable"
    /\ dv[MT].pc = "ret"
    /\ mt' = [mt EXCEPT !.pc = "recv"]
    /\ dv' = [dv EXCEPT ![MT] = DvIdle]
    /\ UNCHANGED << calc, gen, other, devOpen, hidClosed, mu, cmu, quitCh, closedCh, nwd, wd, fg,
                    wire, failBudget, crashed, lastCall, ncalls >>

\* (mutant of MRecvClosed) the goroutine ends without the disable command
MRecvClosedNoDisable ==
    /\ Alive
    /\ mt.pc = "recv"
    /\ ~mt.open
    /\ mt' = [mt EXCEPT !.pc = "done"]
    /\ UNCHANGED << calc, gen, other, devOpen, hidClosed, mu, cmu, quitCh, closedCh, nwd, wd, fg,
                    dv, wire, failBudget, crashed, lastCall, ncalls >>

\* the range loop ends on the closed channel: SetTickleMode(false, keepOld, 0, 0, 0)
MRecvClosed ==
    /\ Alive
    /\ mt.pc = "recv"
    /\ ~mt.open
    /\ mt' = [mt EXCEPT !.pc = "disable"]
    /\ dv' = [dv EXCEPT ![MT] = Begin(SetTickleMode(FALSE, mt.keep, 0, 0, 0))]
    /\ UNCHANGED << calc, gen, other, devOpen, hidClosed, mu, cmu, quitCh, closedCh, nwd, wd, fg,
                    wire, failBudget, crashed, lastCall, ncalls >>

MDisableRet ==
    /\ Alive
    /\ mt.pc = "disable"
    /\ dv[MT].pc = "ret"
    /\ mt' = [mt EXCEPT !.pc = "done"]
    /\ dv' = [dv EXCEPT ![MT] = DvIdle]
    /\ UNCHANGED << calc, gen, other, devOpen, hidClosed, mu, cmu, quitCh, closedCh, nwd, wd, fg,
                    wire, failBudget, crashed, lastCall, ncalls >>

ManualStep ==
    \/ MEnableRet
    \/ MRecvClosed
    \/ MDisableRet
    \/ DevLock(MT)
    \/ DevWrite(MT)
    \/ DevPanic(MT)

(* ------------------------------------------------------------------ *)
(* Specification of the low-level device commands and Close           *)
(* ------------------------------------------------------------------ *)
\* a position inside the pattern RAM and the first one outside it
CmdPos == {0, getMaxPattern(gen)}

DeviceNext ==
    \/ \E cmd \in DeviceCmds, pos \in CmdPos : DeviceCommand(cmd, pos)
    \/ Close
    \/ DevLock(FG)
    \/ DevWrite(FG)
    \/ DevRead(FG)
    \/ DevSleep(FG)
    \/ DevPanic(FG)
    \/ DevClose(FG)
    \/ FgRet

DeviceSpec == Init /\ [][DeviceNext]_vars

\* C6: after Device.Close has returned, every device command returns an
\* error value and never panics.
CommandsFailAfterClose ==
    (lastCall.op \in (DeviceCmds \ {"SavePattern"}) /\ ~lastCall.wasOpen)
    => (lastCall.ret = "err" /\ Alive)

(* ------------------------------------------------------------------ *)
(* Specification of the transport lock: a foreground command of each  *)
(* transport primitive, Close, one auto-tickle goroutine and the      *)
(* manual tickle goroutine                                            *)
(* ------------------------------------------------------------------ *)
LockCmds == {"FadeToRGB", "SetPatternLine", "ReadRGB", "Test"}

LockInit == InitWith(MaxFails)

LockNext ==
    \/ \E cmd \in LockCmds : DeviceCommand(cmd, 0)
    \/ Close
    \/ nwd = 0 /\ StartAutoTickle(0, 0, FALSE)
    \/ StopAutoTickle
    \/ StartManualTickle(0, 0, 3000, FALSE)
    \/ ManualSignal
    \/ ManualClose
    \/ DevLock(FG)
    \/ DevWrite(FG)
    \/ DevRead(FG)
    \/ DevSleep(FG)
    \/ DevPanic(FG)
    \/ DevClose(FG)
    \/ FgRet
    \/ WatchdogStep(1)
    \/ ManualStep

LockSpec == LockInit /\ [][LockNext]_vars

\* C7: at most one operation is between Lock and Unlock of the transport
\* mutex, the mutex is locked while one is, and every feature report was
\* transferred by the one operation holding it.
TransportIsExclusive ==
    /\ CSCount <= 1
    /\ (CSCount = 1 => mu)
    /\ \A i \in 1..Len(wire) : wire[i].held

\* C7 witness: one thread inside the lock while another waits for it, after
\* transfers of two different threads
TransportContended ==
    /\ \E t1, t2 \in Threads : t1 # t2 /\ InCS(t1) /\ dv[t2].pc = "lock"
    /\ \E i, j \in 1..Len(wire) : wire[i].by # wire[j].by

IsOp(x, op) == x.buf[2] = op

\* C8: on generation >= 2 every pattern-line buffer directly follows the
\* LED-select buffer of the same SetPatternLine, and a LED-select buffer that
\* was written is directly followed by its pattern-line buffer; on generation
\* 1 no LED-select buffer is written.
PatternLineIsAtomic ==
    \A i \in 1..Len(wire) :
      /\ IsOp(wire[i], OpSetLine) /\ gen >= 2
           => (i > 1 /\ IsOp(wire[i - 1], OpLedN) /\ wire[i - 1].ok
                 /\ wire[i - 1].by = wire[i].by)
      /\ IsOp(wire[i], OpLedN)
           => /\ gen >= 2
              /\ (wire[i].ok /\ i < Len(wire))
                    => (IsOp(wire[i + 1], OpSetLine) /\ wire[i + 1].by = wire[i].by)
              /\ (wire[i].ok /\ i = Len(wire) /\ Len(wire) < MaxWire)
                    => InCS(wire[i].by)

\* C8 witness: a tick's tickle buffer, then the LED-select and pattern-line
\* buffers of one SetPatternLine, on a generation 2 device
PatternLineAfterTick ==
    /\ gen = 2
    /\ Len(wire) >= 3
    /\ IsOp(wire[1], OpTickle) /\ wire[1].by = 1
    /\ IsOp(wire[2], OpLedN) /\ IsOp(wire[3], OpSetLine)

(* ------------------------------------------------------------------ *)
(* Pattern operations of the controller (PlayPattern, LoadPattern,    *)
(* PlayPatternBlocking), one step per Device call they make           *)
(* ------------------------------------------------------------------ *)
PatternOps == {"PlayPattern", "PlayPatternBlocking", "LoadPattern"}

\* the operation returns res to its caller (after sleeping slept msec)
PatternReturn(f, res, slept) ==
    /\ lastCall' = [CallRec(f.op, f.s, f.e) EXCEPT !.rep = f.rep, !.sts = f.sts,
                                                   !.log = f.log, !.ret = res,
                                                   !.slept = slept]
    /\ fg' = FgIdle
    /\ dv' = [dv EXCEPT ![FG] = DvIdle]
    /\ cmu' = FALSE

\* st := convLightState(states[pc]); st.R, st.G, st.B = degammaRGB(...)
LineState(f) ==
    LET st == convLightState(f.sts[f.k + 1])
        d == degammaRGB(st.R, st.G, st.B)
    IN  [st EXCEPT !.R = d[1], !.G = d[2], !.B = d[3]]

\* LoadPattern returned res: LoadPattern's caller gets it; PlayPattern
\* returns an error, or goes on to PlayLoop(true, start, end, repeat)
AfterLoad(f, res) ==
    IF f.op = "LoadPattern" \/ res # "ok"
    THEN PatternReturn(f, res, 0)
    ELSE /\ fg' = [f EXCEPT !.pc = "play"]
         /\ dv' = [dv EXCEPT ![FG] = Begin(PlayLoop(TRUE, f.s, f.end, f.rep))]
         /\ cmu' = TRUE
         /\ UNCHANGED lastCall

\* one attempt of retryWorkload(SetPatternLine(pos, st))
LoadLine(f) ==
    /\ fg' = f
    /\ dv' = [dv EXCEPT ![FG] = Begin(SetPatternLine(f.pos, LineState(f)))]
    /\ cmu' = (f.op # "LoadPattern")
    /\ UNCHANGED lastCall

\* (mutant of LoadEnter) the range is validated before the empty list is
\* looked at
LoadEnterValidateFirst(f, posEnd) ==
    IF ~isPosRangeValid(f.s, posEnd) THEN AfterLoad(f, "errInvalidPosition")
    ELSE IF Len(f.sts) = 0 THEN AfterLoad(f, "ok")
    ELSE LET pe == IF posEnd = 0 THEN getMaxPattern(gen) - 1 ELSE posEnd
             g == [f EXCEPT !.pc = "load", !.lend = pe, !.pos = f.s, !.k = 0,
                            !.try = 0]
         IN  IF g.pos > pe THEN AfterLoad(g, "ok") ELSE LoadLine(g)

\* LoadPattern(f.s, posEnd, f.sts) up to its first Device call
LoadEnter(f, posEnd) ==
    IF Len(f.sts) = 0 THEN AfterLoad(f, "ok")
    ELSE IF ~isPosRangeValid(f.s, posEnd) THEN AfterLoad(f, "errInvalidPosition")
    ELSE LET pe == IF posEnd = 0 THEN getMaxPattern(gen) - 1 ELSE posEnd
             g == [f EXCEPT !.pc = "load", !.lend = pe, !.pos = f.s, !.k = 0,
                            !.try = 0]
         IN  IF g.pos > pe THEN AfterLoad(g, "ok") ELSE LoadLine(g)

\* PlayPattern(pt), called directly or by PlayPatternBlocking (op)
PlayPatternCall(op, s, e, r, sts) ==
    /\ Alive
    /\ fg.op = "idle"
    /\ ~OtHoldsControllerLock
    /\ ncalls < MaxCalls
    /\ ncalls' = ncalls + 1
    /\ LET f == [FgIdle EXCEPT !.op = op, !.s = s, !.e = e, !.rep = r, !.sts = sts,
                               !.end = IF e = 0 THEN getMaxPattern(gen) - 1 ELSE e]
       IN  IF ~isPosRangeValid(s, e) THEN PatternReturn(f, "errInvalidPosition", 0)
           ELSE IF r > maxRepeat THEN PatternReturn(f, "errInvalidRepeatTimes", 0)
           ELSE LoadEnter(f, f.end)
    /\ UNCHANGED << calc, gen, other, devOpen, hidClosed, mu, quitCh, closedCh, nwd, wd, mt, wire,
                    failBudget, crashed >>

PlayPattern(s, e, r, sts) == PlayPatternCall("PlayPattern", s, e, r, sts)

PlayPatternBlocking(s, e, r, sts) == PlayPatternCall("PlayPatternBlocking", s, e, r, sts)

LoadPattern(posStart, posEnd, states) ==
    /\ Alive
    /\ fg.op = "idle"
    /\ ncalls < MaxCalls
    /\ ncalls' = ncalls + 1
    /\ LoadEnter([FgIdle EXCEPT !.op = "LoadPattern", !.s = posStart, !.e = posEnd,
                                !.sts = states], posEnd)
    /\ UNCHANGED << calc, gen, other, devOpen, hidClosed, mu, quitCh, closedCh, nwd, wd, mt, wire,
                    failBudget, crashed >>

\* (mutant of LoadRet) the loop ends only when the states are used up
LoadRetIgnoresRange ==
    /\ Alive
    /\ fg.pc = "load"
    /\ dv[FG].pc = "ret"
    /\ IF dv[FG].res = "ok"
       THEN LET g == [fg EXCEPT !.k = fg.k + 1, !.pos = fg.pos + 1, !.try = 0]
            IN  IF g.k >= Len(fg.sts)
                THEN AfterLoad(g, "ok")
                ELSE LoadLine(g)
       ELSE IF fg.try + 1 >= opsTryTimes
            THEN AfterLoad(fg, "err")
            ELSE LoadLine([fg EXCEPT !.try = fg.try + 1])
    /\ UNCHANGED << calc, gen, other, devOpen, hidClosed, mu, quitCh, closedCh, nwd, wd, mt, wire,
                    failBudget, crashed, ncalls >>

\* (mutant of LoadRet) a line that failed on every attempt is passed over
LoadRetSkipsFailedLine ==
    /\ Alive
    /\ fg.pc = "load"
    /\ dv[FG].pc = "ret"
    /\ IF dv[FG].res = "ok" \/ fg.try + 1 >= opsTryTimes
       THEN LET g == [fg EXCEPT !.k = fg.k + 1, !.pos = fg.pos + 1, !.try = 0]
            IN  IF g.k >= Len(fg.sts) \/ g.pos > fg.lend
                THEN AfterLoad(g, "ok")
                ELSE LoadLine(g)
       ELSE LoadLine([fg EXCEPT !.try = fg.try + 1])
    /\ UNCHANGED << calc, gen, other, devOpen, hidClosed, mu, quitCh, closedCh, nwd, wd, mt, wire,
                    failBudget, crashed, ncalls >>

\* SetPatternLine returned inside LoadPattern's loop: on an error the retry
\* wrapper tries again up to opsTryTimes times; on success the loop ends
\* when the states are used up or the range is
LoadRet ==
    /\ Alive
    /\ fg.pc = "load"
    /\ dv[FG].pc = "ret"
    /\ IF dv[FG].res = "ok"
       THEN LET g == [fg EXCEPT !.k = fg.k + 1, !.pos = fg.pos + 1, !.try = 0]
            IN  IF g.k >= Len(fg.sts) \/ g.pos > fg.lend
                THEN AfterLoad(g, "ok")
                ELSE LoadLine(g)
       ELSE IF fg.try + 1 >= opsTryTimes
            THEN AfterLoad(fg, "err")
            ELSE LoadLine([fg EXCEPT !.try = fg.try + 1])
    /\ UNCHANGED << calc, gen, other, devOpen, hidClosed, mu, quitCh, closedCh, nwd, wd, mt, wire,
                    failBudget, crashed, ncalls >>

\* one attempt of retryWorkload(ReadPatternLine(i))
ReadLine(f) ==
    /\ fg' = f
    /\ dv' = [dv EXCEPT ![FG] = Begin(ReadPatternLine(f.pos))]
    /\ cmu' = FALSE
    /\ UNCHANGED lastCall

\* (mutant of PlayRet) PlayPatternBlocking returns after PlayPattern
PlayRetNoWait ==
    /\ Alive
    /\ fg.pc = "play"
    /\ dv[FG].pc = "ret"
    /\ PatternReturn(fg, dv[FG].res, 0)
    /\ UNCHANGED << calc, gen, other, devOpen, hidClosed, mu, quitCh, closedCh, nwd, wd, mt, wire,
                    failBudget, crashed, ncalls >>

\* (mutant of PlayRet) PlayPatternBlocking waits inside the controller lock
PlayRetKeepsLock ==
    /\ Alive
    /\ fg.pc = "play"
    /\ dv[FG].pc = "ret"
    /\ IF fg.op = "PlayPattern" \/ dv[FG].res # "ok"
       THEN PatternReturn(fg, dv[FG].res, 0)
       ELSE IF fg.rep = 0
       THEN /\ fg' = [fg EXCEPT !.pc = "blocked"]
            /\ dv' = [dv EXCEPT ![FG] = DvIdle]
            /\ cmu' = TRUE
            /\ UNCHANGED lastCall
       ELSE LET endPos == IF fg.e = 0 THEN getMaxPattern(gen) - 1 ELSE fg.e
                g == [fg EXCEPT !.pc = "readback", !.pos = fg.s, !.lend = endPos,
                                !.try = 0, !.tot = 0]
            IN  IF g.pos > endPos THEN PatternReturn(g, "ok", 0)
                ELSE /\ fg' = g
                     /\ dv' = [dv EXCEPT ![FG] = Begin(ReadPatternLine(g.pos))]
                     /\ cmu' = TRUE
                     /\ UNCHANGED lastCall
    /\ UNCHANGED << calc, gen, other, devOpen, hidClosed, mu, quitCh, closedCh, nwd, wd, mt,
                    wire, failBudget, crashed, ncalls >>

\* PlayLoop returned: PlayPattern returns its error.  PlayPatternBlocking
\* then blocks forever (repeat 0) or reads the lines of the range back
PlayRet ==
    /\ Alive
    /\ fg.pc = "play"
    /\ dv[FG].pc = "ret"
    /\ IF fg.op = "PlayPattern" \/ dv[FG].res # "ok"
       THEN PatternReturn(fg, dv[FG].res, 0)
       ELSE IF fg.rep = 0
       THEN /\ fg' = [fg EXCEPT !.pc = "blocked"]
            /\ dv' = [dv EXCEPT ![FG] = DvIdle]
            /\ cmu' = FALSE
            /\ UNCHANGED lastCall
       ELSE LET endPos == IF fg.e = 0 THEN getMaxPattern(gen) - 1 ELSE fg.e
                g == [fg EXCEPT !.pc = "readback", !.pos = fg.s, !.lend = endPos,
                                !.try = 0, !.tot = 0]
            IN  IF g.pos > endPos THEN PatternReturn(g, "ok", 0) ELSE ReadLine(g)
    /\ UNCHANGED << calc, gen, other, devOpen, hidClosed, mu, quitCh, closedCh, nwd, wd, mt, wire,
                    failBudget, crashed, ncalls >>

\* (mutant of ReadbackRet) the caller sleeps the sum of the fade times once
ReadbackRetSleepsOnce ==
    /\ Alive
    /\ fg.pc = "readback"
    /\ dv[FG].pc = "ret"
    /\ IF dv[FG].res = "ok"
       THEN LET fade == IF dv[FG].resp = << >> THEN 0
                        ELSE convFadeMsToDurMs(dv[FG].resp[6], dv[FG].resp[7])
                g == [fg EXCEPT !.pos = fg.pos + 1, !.try = 0, !.tot = fg.tot + fade]
            IN  IF g.pos > fg.lend THEN PatternReturn(g, "ok", g.tot)
                ELSE ReadLine(g)
       ELSE IF fg.try + 1 >= opsTryTimes
            THEN PatternReturn(fg, "err", 0)
            ELSE ReadLine([fg EXCEPT !.try = fg.try + 1])
    /\ UNCHANGED << calc, gen, other, devOpen, hidClosed, mu, quitCh, closedCh, nwd, wd, mt, wire,
                    failBudget, crashed, ncalls >>

\* ReadPatternLine returned inside PlayPatternBlocking's loop: the fade time
\* of the line is added up; after the last line the caller sleeps
\* totalDur * RepeatTimes
ReadbackRet ==
    /\ Alive
    /\ fg.pc = "readback"
    /\ dv[FG].pc = "ret"
    /\ IF dv[FG].res = "ok"
       THEN LET fade == IF dv[FG].resp = << >> THEN 0
                        ELSE convFadeMsToDurMs(dv[FG].resp[6], dv[FG].resp[7])
                g == [fg EXCEPT !.pos = fg.pos + 1, !.try = 0, !.tot = fg.tot + fade]
            IN  IF g.pos > fg.lend THEN PatternReturn(g, "ok", g.tot * g.rep)
                ELSE ReadLine(g)
       ELSE IF fg.try + 1 >= opsTryTimes
            THEN PatternReturn(fg, "err", 0)
            ELSE ReadLine([fg EXCEPT !.try = fg.try + 1])
    /\ UNCHANGED << calc, gen, other, devOpen, hidClosed, mu, quitCh, closedCh, nwd, wd, mt, wire,
                    failBudget, crashed, ncalls >>

(* ------------------------------------------------------------------ *)
(* Specification of the pattern operations and of argument validation *)
(* ------------------------------------------------------------------ *)
\* the light states a caller passes: colour, LED, fade duration in msec
StateA == [r |-> 255, g |-> 0, b |-> 128, led |-> 1, fade |-> 1000]

StateB == [r |-> 10, g |-> 200, b |-> 64, led |-> 0, fade |-> 15]

\* the state list A, B, A, ... of length n
StatesOfLen(n) == [i \in 1..n |-> IF i % 2 = 1 THEN StateA ELSE StateB]

\* lists of up to MaxStates states and, on a transport that is not made to
\* fail and with no watchdog started, one that fills the pattern RAM
PatLens ==
    (0..MaxStates) \cup (IF failBudget = 0 /\ nwd = 0 THEN {getMaxPattern(gen)} ELSE {})

\* the whole RAM, one line, start after end, end at the capacity
PatRanges == { << 0, 0 >>, << 1, 1 >>, << 2, 1 >>, << 0, getMaxPattern(gen) >> }

\* ranges given to PlayPatternBlocking, whose read-back covers the range
BlockRanges == PatRanges \ { << 0, 0 >> }

\* ranges given to the tickle calls: the whole RAM, end at the capacity
TickleRanges == { << 0, 0 >>, << 0, getMaxPattern(gen) >> }

\* forever, twice, and one above the largest count
PatRepeats == {0, 2, maxRepeat + 1}

\* manual tickle timeouts in msec, below and above minTimeDur
ManualTimeouts == {minTimeDur - 1, 3000}

PatternInit == \E b \in {0, MaxFails} : InitWith(b)

\* the caller's calls of a run: tickle calls, then one pattern call
PatternCalls ==
    \/ \E p \in PatRanges, r \in PatRepeats, n \in PatLens :
          PlayPattern(p[1], p[2], r, StatesOfLen(n))
    \/ \E p \in BlockRanges, r \in PatRepeats, n \in 0..MaxStates :
          PlayPatternBlocking(p[1], p[2], r, StatesOfLen(n))
    \/ \E p \in PatRanges, n \in PatLens : LoadPattern(p[1], p[2], StatesOfLen(n))
    \/ \E p \in TickleRanges :
          /\ nwd = 0 \/ ~isPosRangeValid(p[1], p[2])
          /\ StartAutoTickle(p[1], p[2], FALSE)
    \/ \E p \in TickleRanges, t \in ManualTimeouts :
          StartManualTickle(p[1], p[2], t, FALSE)

PatternNext ==
    \/ lastCall.op \notin PatternOps /\ PatternCalls
    \/ LoadRet
    \/ PlayRet
    \/ ReadbackRet
    \/ DevLock(FG)
    \/ DevWrite(FG)
    \/ DevRead(FG)

PatternSpec == PatternInit /\ [][PatternNext]_vars

\* a range the interface calls invalid: neither start <= end < capacity nor
\* end = 0 with start < capacity
InvalidRange(s, e) ==
    ~ \/ (s <= e /\ e < getMaxPattern(gen))
      \/ (e = 0 /\ s < getMaxPattern(gen))

\* the last call returned a validation error with no transfer made and no
\* task started
Rejected ==
    /\ lastCall.ret \in {"errInvalidPosition", "errInvalidRepeatTimes",
                         "errInvalidTimeout"}
    /\ lastCall.log = << >>
    /\ lastCall.spawned = 0

\* C9: PlayPattern and PlayPatternBlocking with an invalid range or a repeat
\* count above 255, LoadPattern with states and an invalid range,
\* StartAutoTickle with an invalid range and StartManualTickle with an invalid
\* range or a timeout below 10 ms return a validation error without any
\* transfer and without starting a task; no such call is ever in progress.
ValidationPrecedesIO ==
    /\ (/\ lastCall.op \in {"PlayPattern", "PlayPatternBlocking"}
        /\ (InvalidRange(lastCall.s, lastCall.e) \/ lastCall.rep > 255)) => Rejected
    /\ (/\ lastCall.op = "LoadPattern"
        /\ lastCall.sts # << >>
        /\ InvalidRange(lastCall.s, lastCall.e)) => Rejected
    /\ (/\ lastCall.op = "StartAutoTickle"
        /\ InvalidRange(lastCall.s, lastCall.e)) => Rejected
    /\ (/\ lastCall.op = "StartManualTickle"
        /\ (InvalidRange(lastCall.s, lastCall.e) \/ lastCall.tmo < 10)) => Rejected
    /\ (/\ fg.op \in PatternOps
        /\ fg.sts # << >> \/ fg.op # "LoadPattern"
        /\ InvalidRange(fg.s, fg.e) \/ fg.rep > 255) => FALSE
    /\ \A w \in Watchdogs : wd[w].pc # "none" => ~InvalidRange(wd[w].s, wd[w].e)
    /\ mt.pc # "none" => (~InvalidRange(mt.s, mt.e) /\ mt.tmo >= 10)

\* C9 witness: after a watchdog was started, a PlayPatternBlocking with
\* states, a valid range and repeat count 256 was rejected
RepeatRejectedWhileTickling ==
    /\ lastCall.op = "PlayPatternBlocking"
    /\ lastCall.rep = 256
    /\ lastCall.sts # << >>
    /\ ~InvalidRange(lastCall.s, lastCall.e)
    /\ Rejected
    /\ Lifecycle = "Running"

IsLine(x) == x.buf[2] = OpSetLine

\* C10: a completed PlayPattern with start 0, end 0, repeat r <= 255 and n
\* states, 1 <= n <= capacity, whose transfers all succeeded, wrote n
\* pattern-line buffers, the i-th at position i-1 with the gamma-corrected
\* colour of state i, and then, as its last transfer, its only play-loop
\* buffer: play 1, start 0, end capacity-1, repeat r.
PlayPatternWritesInOrder ==
    (/\ lastCall.op = "PlayPattern"
     /\ lastCall.ret # "none"
     /\ lastCall.s = 0
     /\ lastCall.e = 0
     /\ lastCall.rep <= 255
     /\ Len(lastCall.sts) \in 1..getMaxPattern(gen)
     /\ \A i \in 1..Len(lastCall.log) : lastCall.log[i].ok)
    => LET log == lastCall.log
           n == Len(lastCall.sts)
           lines == SelectSeq(log, IsLine)
       IN  /\ lastCall.ret = "ok"
           /\ Len(lines) = n
           /\ \A i \in 1..n :
                /\ lines[i].buf[8] = i - 1
                /\ lines[i].buf[3] = gammaE[lastCall.sts[i].r + 1]
                /\ lines[i].buf[4] = gammaE[lastCall.sts[i].g + 1]
                /\ lines[i].buf[5] = gammaE[lastCall.sts[i].b + 1]
           /\ Len(log) > n
           /\ log[Len(log)].buf = << 1, OpPlay, 1, 0, getMaxPattern(gen) - 1,
                                     lastCall.rep, 0, 0, 0 >>
           /\ \A i \in 1..(Len(log) - 1) : log[i].buf[2] \in {OpSetLine, OpLedN}

\* C10 witness: PlayPattern(0, 0, 2, two states) completed on a generation 2
\* device with five successful transfers
TwoStatePatternPlayed ==
    /\ gen = 2
    /\ lastCall.op = "PlayPattern"
    /\ lastCall.ret = "ok"
    /\ lastCall.s = 0 /\ lastCall.e = 0 /\ lastCall.rep = 2
    /\ Len(lastCall.sts) = 2
    /\ Len(lastCall.log) = 5
    /\ \A i \in 1..5 : lastCall.log[i].ok

\* C11: LoadPattern with an empty state list returns success without any
\* transfer, whatever the start and end positions; it is never found in
\* progress.
EmptyLoadIsNoOp ==
    /\ (lastCall.op = "LoadPattern" /\ lastCall.sts = << >>)
          => (lastCall.ret = "ok" /\ lastCall.log = << >>)
    /\ fg.op = "LoadPattern" => fg.sts # << >>

\* C11 witness: LoadPattern(0, capacity, no states) returned success
EmptyLoadOutsideRange ==
    /\ lastCall.op = "LoadPattern"
    /\ lastCall.sts = << >>
    /\ lastCall.s = 0 /\ lastCall.e = getMaxPattern(gen)
    /\ lastCall.ret = "ok"

\* the last transfer of the call was the play-loop buffer, written with
\* success
PlayStepSucceeded(f) ==
    /\ f.log # << >>
    /\ f.log[Len(f.log)].ok
    /\ f.log[Len(f.log)].buf[2] = OpPlay

\* C12: PlayPatternBlocking with repeat count 0 blocks exactly when its
\* PlayPattern step succeeded and then stays blocked for ever; whenever it
\* returns it returns the error of the PlayPattern step (a validation error
\* with no transfer made, or the error of a failed play-loop write).
InfinitePatternBlocks ==
    /\ [](fg.pc = "blocked"
            => (fg.op = "PlayPatternBlocking" /\ fg.rep = 0 /\ PlayStepSucceeded(fg)))
    /\ []((lastCall.op = "PlayPatternBlocking" /\ lastCall.rep = 0)
            => \/ (lastCall.ret \in {"errInvalidPosition", "errInvalidRepeatTimes"}
                     /\ lastCall.log = << >>)
               \/ (lastCall.ret = "err" /\ ~PlayStepSucceeded(lastCall)))
    /\ [][fg.pc = "blocked" => (fg' = fg /\ lastCall' = lastCall)]_vars

\* C12 witness: PlayPatternBlocking(1, 1, 0, one state) is blocked after its
\* pattern line and play-loop writes
BlockedAfterPlay ==
    /\ fg.pc = "blocked"
    /\ fg.s = 1 /\ fg.e = 1 /\ Len(fg.sts) = 1
    /\ PlayStepSucceeded(fg)

(* ------------------------------------------------------------------ *)
(* retryWorkload, applied to a mock workload whose successive         *)
(* invocations yield the outcomes of a script                         *)
(* ------------------------------------------------------------------ *)
\* the errors a mock workload returns ("nil" is success)
MockErrs == {"errA", "errB"}

\* scripts one outcome longer than the retry limit
MockScripts == [1..(opsTryTimes + 1) -> MockErrs \cup {"nil"}]

\* retryWorkload(workload) is called
RetryStart(script) ==
    /\ calc.op = "none"
    /\ calc' = [op |-> "retryWorkload", pc |-> "loop", script |-> script, i |-> 0,
                calls |-> 0, sleeps |-> 0, err |-> "nil", ret |-> "none"]
    /\ UNCHANGED << gen, other, devOpen, hidClosed, mu, cmu, quitCh, closedCh, nwd, wd, mt,
                    dv, fg, wire, failBudget, crashed, lastCall, ncalls >>

\* (mutant of RetryAttempt) the loop runs while i <= opsTryTimes
RetryAttemptOneMore ==
    /\ calc.op = "retryWorkload"
    /\ calc.pc = "loop"
    /\ IF calc.i <= opsTryTimes
       THEN LET e == calc.script[calc.calls + 1]
            IN  calc' = [calc EXCEPT !.calls = calc.calls + 1, !.err = e,
                                     !.pc = IF e = "nil" THEN "done" ELSE "sleep",
                                     !.ret = IF e = "nil" THEN "nil" ELSE "none"]
       ELSE calc' = [calc EXCEPT !.pc = "done", !.ret = calc.err]
    /\ UNCHANGED << gen, other, devOpen, hidClosed, mu, cmu, quitCh, closedCh, nwd, wd, mt,
                    dv, fg, wire, failBudget, crashed, lastCall, ncalls >>

\* the loop head: with i < opsTryTimes the workload is invoked and a nil
\* error returns nil at once; after the loop the last error is returned
RetryAttempt ==
    /\ calc.op = "retryWorkload"
    /\ calc.pc = "loop"
    /\ IF calc.i < opsTryTimes
       THEN LET e == calc.script[calc.calls + 1]
            IN  calc' = [calc EXCEPT !.calls = calc.calls + 1, !.err = e,
                                     !.pc = IF e = "nil" THEN "done" ELSE "sleep",
                                     !.ret = IF e = "nil" THEN "nil" ELSE "none"]
       ELSE calc' = [calc EXCEPT !.pc = "done", !.ret = calc.err]
    /\ UNCHANGED << gen, other, devOpen, hidClosed, mu, cmu, quitCh, closedCh, nwd, wd, mt,
                    dv, fg, wire, failBudget, crashed, lastCall, ncalls >>

\* time.Sleep(opsInterval) after a failed attempt, then i++
RetrySleep ==
    /\ calc.op = "retryWorkload"
    /\ calc.pc = "sleep"
    /\ calc' = [calc EXCEPT !.sleeps = calc.sleeps + 1, !.i = calc.i + 1, !.pc = "loop"]
    /\ UNCHANGED << gen, other, devOpen, hidClosed, mu, cmu, quitCh, closedCh, nwd, wd, mt,
                    dv, fg, wire, failBudget, crashed, lastCall, ncalls >>

RetryNext ==
    \/ \E script \in MockScripts : RetryStart(script)
    \/ RetryAttempt
    \/ RetrySleep

RetrySpec == Init /\ [][RetryNext]_vars

\* the attempts among the first three that the script lets succeed
OkAttempts(script) == {j \in 1..3 : script[j] = "nil"}

\* C13: the retry wrapper never invokes the operation more than 3 times.
\* When it has returned: if one of the first three attempts succeeds it
\* returned success after exactly the first such attempt j, with j - 1
\* cooldown sleeps (3 invocations and 2 sleeps after two failures); otherwise
\* it returned the error of the third attempt after exactly 3 invocations.
RetryStopsAtFirstSuccess ==
    calc.op = "retryWorkload" =>
      /\ calc.calls <= 3
      /\ calc.pc = "done" =>
            IF OkAttempts(calc.script) # {}
            THEN LET j == CHOOSE j \in OkAttempts(calc.script) :
                              \A k \in OkAttempts(calc.script) : j <= k
                 IN  calc.ret = "nil" /\ calc.calls = j /\ calc.sleeps = j - 1
            ELSE calc.ret = calc.script[3] /\ calc.ret # "nil" /\ calc.calls = 3

\* C13 witness: a workload failing twice and then succeeding was retried to
\* success with 3 invocations and 2 sleeps
ThirdAttemptSucceeded ==
    /\ calc.op = "retryWorkload"
    /\ calc.pc = "done"
    /\ calc.script[1] = "errA" /\ calc.script[2] = "errB" /\ calc.script[3] = "nil"
    /\ calc.ret = "nil" /\ calc.calls = 3 /\ calc.sleeps = 2

(* ------------------------------------------------------------------ *)
(* The fade-time codec applied to a duration in msec                  *)
(* ------------------------------------------------------------------ *)
\* every duration up to MaxFadeInput, the first and the last duration of
\* every value of the high byte, the durations around the clamp at
\* maxFadeMsec, and the largest 32-bit one
FadeInputs ==
    (0..MaxFadeInput)
      \cup { h * 2560 : h \in 0..256 }
      \cup { h * 2560 + 2559 : h \in 0..255 }
      \cup ((maxFadeMsec - (MaxFadeInput \div 100))..(maxFadeMsec + (MaxFadeInput \div 100)))
      \cup {2147483647}

\* (mutant of FadeRoundTrip) the pair is decoded low byte first
FadeRoundTripSwapped(ms) ==
    /\ calc.op = "none"
    /\ LET p == convDurMsToFadeMs(ms)
       IN  calc' = [op |-> "fadeCodec", ms |-> ms, pair |-> p,
                    back |-> convFadeMsToDurMs(p[2], p[1])]
    /\ UNCHANGED << gen, other, devOpen, hidClosed, mu, cmu, quitCh, closedCh, nwd, wd, mt,
                    dv, fg, wire, failBudget, crashed, lastCall, ncalls >>

\* th, tl := convDurMsToFadeMs(ms); back := convFadeMsToDurMs(th, tl)
FadeRoundTrip(ms) ==
    /\ calc.op = "none"
    /\ LET p == convDurMsToFadeMs(ms)
       IN  calc' = [op |-> "fadeCodec", ms |-> ms, pair |-> p,
                    back |-> convFadeMsToDurMs(p[1], p[2])]
    /\ UNCHANGED << gen, other, devOpen, hidClosed, mu, cmu, quitCh, closedCh, nwd, wd, mt,
                    dv, fg, wire, failBudget, crashed, lastCall, ncalls >>

CodecInit == Init /\ gen = 1

CodecNext == calc.op = "none" /\ \E ms \in FadeInputs : FadeRoundTrip(ms)

CodecSpec == CodecInit /\ [][CodecNext]_vars

\* C14: for ms up to 655350 the encoded pair is the big-endian bytes of
\* ms div 10 and decodes to (ms div 10) * 10; for larger ms the pair is
\* (255, 255) and decodes to 655350.
FadeCodecRoundTrip ==
    calc.op = "fadeCodec" =>
      IF calc.ms <= 655350
      THEN /\ calc.pair = << (calc.ms \div 10) \div 256, (calc.ms \div 10) % 256 >>
           /\ calc.back = (calc.ms \div 10) * 10
      ELSE /\ calc.pair = << 255, 255 >>
           /\ calc.back = 655350

\* C14 witness: 1234 msec was encoded as (0, 123) and decoded as 1230 msec
FadeTruncated ==
    /\ calc.op = "fadeCodec"
    /\ calc.ms = 1234
    /\ calc.pair = << 0, 123 >>
    /\ calc.back = 1230

(* ------------------------------------------------------------------ *)
(* Colour operations of the controller                                *)
(* ------------------------------------------------------------------ *)
\* a controller operation that takes the controller lock and makes one
\* Device call; col is the colour its caller gave
OneCall(op, col, call) ==
    /\ Alive
    /\ fg.op = "idle"
    /\ ~OtHoldsControllerLock
    /\ ncalls < MaxCalls
    /\ ncalls' = ncalls + 1
    /\ fg' = [FgIdle EXCEPT !.op = op, !.pc = "dev", !.col = col]
    /\ dv' = [dv EXCEPT ![FG] = Begin(call)]
    /\ cmu' = TRUE
    /\ UNCHANGED << calc, gen, other, devOpen, hidClosed, mu, quitCh, closedCh, nwd, wd, mt,
                    wire, failBudget, crashed, lastCall >>

PlayState(st) ==
    LET c == convColorToRGB(st)
        d == degammaRGB(c[1], c[2], c[3])
    IN  OneCall("PlayState", << st.r, st.g, st.b >>,
                FadeToRGB(d[1], d[2], d[3], st.fade, st.led))

PlayColor(cl) ==
    LET c == convColorToRGB(cl)
        d == degammaRGB(c[1], c[2], c[3])
    IN  OneCall("PlayColor", << cl.r, cl.g, cl.b >>, SetRGBNow(d[1], d[2], d[3], 0))

PlayRGB(r, g, b) == OneCall("PlayRGB", << r, g, b >>, SetRGBNow(r, g, b, 0))

PlayHSB(hue, saturation, brightness) ==
    LET c == convHSBToRGB(hue, saturation, brightness)
        d == degammaRGB(c[1], c[2], c[3])
    IN  OneCall("PlayHSB", c, SetRGBNow(d[1], d[2], d[3], 0))

ReadColor(ledN) == OneCall("ReadColor", << >>, ReadRGB(ledN))

\* ReadPattern up to its first ReadPatternLine
ReadPattern ==
    /\ Alive
    /\ fg.op = "idle"
    /\ ~OtHoldsControllerLock
    /\ ncalls < MaxCalls
    /\ ncalls' = ncalls + 1
    /\ fg' = [FgIdle EXCEPT !.op = "ReadPattern", !.pc = "readpat"]
    /\ dv' = [dv EXCEPT ![FG] = Begin(ReadPatternLine(0))]
    /\ cmu' = TRUE
    /\ UNCHANGED << calc, gen, other, devOpen, hidClosed, mu, quitCh, closedCh, nwd, wd, mt,
                    wire, failBudget, crashed, lastCall >>

\* ReadPatternLine returned inside ReadPattern's loop over every position
ReadPatternRet ==
    /\ Alive
    /\ fg.pc = "readpat"
    /\ dv[FG].pc = "ret"
    /\ IF dv[FG].res = "ok"
       THEN LET st == ParseLine(dv[FG].resp)
                g == [fg EXCEPT !.pos = fg.pos + 1, !.try = 0,
                                !.ls = Append(fg.ls, convDeviceLightState(st))]
            IN  IF g.pos < getMaxPattern(gen)
                THEN /\ fg' = g
                     /\ dv' = [dv EXCEPT ![FG] = Begin(ReadPatternLine(g.pos))]
                     /\ UNCHANGED << lastCall, cmu >>
                ELSE /\ lastCall' = [CallRec("ReadPattern", 0, 0) EXCEPT
                                       !.log = g.log, !.ret = "ok", !.val = g.ls]
                     /\ fg' = FgIdle
                     /\ dv' = [dv EXCEPT ![FG] = DvIdle]
                     /\ cmu' = FALSE
       ELSE IF fg.try + 1 >= opsTryTimes
            THEN /\ lastCall' = [CallRec("ReadPattern", 0, 0) EXCEPT
                                   !.log = fg.log, !.ret = "err"]
                 /\ fg' = FgIdle
                 /\ dv' = [dv EXCEPT ![FG] = DvIdle]
                 /\ cmu' = FALSE
            ELSE /\ fg' = [fg EXCEPT !.try = fg.try + 1]
                 /\ dv' = [dv EXCEPT ![FG] = Begin(ReadPatternLine(fg.pos))]
                 /\ UNCHANGED << lastCall, cmu >>
    /\ UNCHANGED << calc, gen, other, devOpen, hidClosed, mu, quitCh, closedCh, nwd, wd, mt,
                    wire, failBudget, crashed, ncalls >>

\* hue, saturation, brightness given to PlayHSB: red, a green above the
\* saturation range, a dim blue-violet, a grey, a hue beyond 360
HSBInputs == { << 0, 100, 100 >>, << 120, 150, 100 >>, << 250, 60, 40 >>,
               << 30, 0, 50 >>, << 400, 100, 80 >> }

ColorCalls ==
    \/ \E st \in {StateA, StateB} : PlayState(st)
    \/ \E st \in {StateA, StateB} : PlayColor(st)
    \/ \E st \in {StateA, StateB} : PlayRGB(st.r, st.g, st.b)
    \/ \E c \in HSBInputs : PlayHSB(c[1], c[2], c[3])
    \/ \E l \in {0, 2} : ReadColor(l)
    \/ ReadPattern
    \/ \E n \in 1..MaxStates : LoadPattern(0, 0, StatesOfLen(n))
    \/ \E n \in 1..MaxStates : PlayPattern(1, 0, 2, StatesOfLen(n))

\* two operations in a run, the second following a short one
ColorNext ==
    \/ (lastCall.op \notin (PatternOps \cup {"ReadPattern"}) /\ ncalls < 2 /\ ColorCalls)
    \/ ReadPatternRet
    \/ LoadRet
    \/ PlayRet
    \/ FgRet
    \/ DevLock(FG)
    \/ DevWrite(FG)
    \/ DevRead(FG)

ColorSpec == PatternInit /\ [][ColorNext]_vars

(* ------------------------------------------------------------------ *)
(* C15: gamma correction on colour writes, never on reads             *)
(* ------------------------------------------------------------------ *)
ColorWriteOps == {"PlayState", "PlayColor", "PlayRGB", "PlayHSB"}

IsColorBuf(x) == x.buf[2] \in {OpFade, OpSetNow, OpSetLine}

IsOkRead(x) == x.kind = "R" /\ x.ok

RGBOf(buf) == << buf[3], buf[4], buf[5] >>

\* the gamma table applied to each channel of a colour
GammaImage(c) == << gammaE[c[1] + 1], gammaE[c[2] + 1], gammaE[c[3] + 1] >>

\* the colour bytes of every colour buffer of the writing operations, those
\* in skip left aside, are the gamma image of the colour given by the caller;
\* colours read back are the bytes of the response of the device
GammaExceptIn(skip) ==
    /\ (lastCall.op \in ColorWriteOps \ skip)
         => \A i \in 1..Len(lastCall.log) :
               IsColorBuf(lastCall.log[i])
                 => RGBOf(lastCall.log[i].buf) = GammaImage(lastCall.col)
    /\ (lastCall.op \in {"LoadPattern", "PlayPattern"} \ skip)
         => \A i \in 1..Len(lastCall.log) :
               IsColorBuf(lastCall.log[i])
                 => LET k == lastCall.log[i].buf[8] - lastCall.s + 1
                    IN  /\ k \in 1..Len(lastCall.sts)
                        /\ RGBOf(lastCall.log[i].buf)
                             = GammaImage(<< lastCall.sts[k].r, lastCall.sts[k].g,
                                             lastCall.sts[k].b >>)
    /\ (lastCall.op = "ReadColor" /\ lastCall.ret = "ok")
         => LET x == lastCall.log[Len(lastCall.log)]
            IN  /\ IsOkRead(x)
                /\ lastCall.val = convRGBToColor(x.resp[3], x.resp[4], x.resp[5])
    /\ (lastCall.op = "ReadPattern" /\ lastCall.ret = "ok")
         => LET oks == SelectSeq(lastCall.log, IsOkRead)
            IN  /\ Len(lastCall.val) = getMaxPattern(gen)
                /\ Len(oks) = getMaxPattern(gen)
                /\ \A k \in 1..Len(oks) :
                      /\ oks[k].buf[8] = k - 1
                      /\ << lastCall.val[k].r, lastCall.val[k].g, lastCall.val[k].b >>
                           = RGBOf(oks[k].resp)

\* C15: every colour buffer written for PlayState, PlayColor, PlayRGB,
\* PlayHSB, LoadPattern and PlayPattern carries the gamma image of the
\* colour the caller gave, and ReadColor and ReadPattern return the bytes of
\* the device unchanged.
GammaOnEveryColorWrite == GammaExceptIn({})

\* PlayRGB returned after writing the bytes as they were given
PlayRGBWroteRawBytes ==
    /\ lastCall.op = "PlayRGB"
    /\ lastCall.ret = "ok"
    /\ \E i \in 1..Len(lastCall.log) :
          /\ lastCall.log[i].ok
          /\ RGBOf(lastCall.log[i].buf) = lastCall.col
          /\ lastCall.col # GammaImage(lastCall.col)

GammaButPlayRGB == GammaExceptIn({"PlayRGB"})

(* ------------------------------------------------------------------ *)
(* GetVersion on every response that carries two ASCII digits         *)
(* ------------------------------------------------------------------ *)
Digits == 0..9

\* the device answers the version command with the digits major and minor
VersionRespond(major, minor) ==
    /\ calc.op = "none"
    /\ calc' = [op |-> "GetVersion", pc |-> "read",
                resp |-> << reportID, OpVersion, 0, 48 + major, 48 + minor, 0, 0, 0, 0 >>,
                ver |-> 0]
    /\ UNCHANGED << gen, other, devOpen, hidClosed, mu, cmu, quitCh, closedCh, nwd, wd, mt,
                    fg, dv, wire, failBudget, crashed, ncalls, lastCall >>

\* GetVersion parses the response it read
VersionParse ==
    /\ calc.op = "GetVersion"
    /\ calc.pc = "read"
    /\ calc' = [calc EXCEPT !.pc = "done", !.ver = ParseVersion(calc.resp)]
    /\ UNCHANGED << gen, other, devOpen, hidClosed, mu, cmu, quitCh, closedCh, nwd, wd, mt,
                    fg, dv, wire, failBudget, crashed, ncalls, lastCall >>

VersionNext ==
    \/ \E major \in Digits, minor \in Digits : VersionRespond(major, minor)
    \/ VersionParse

VersionSpec == CodecInit /\ [][VersionNext]_vars

\* C16: for every response whose bytes 3 and 4 are ASCII digits, GetVersion
\* returns major * 100 + minor, for every major digit 0..9.
VersionIsMajorMinor ==
    (calc.op = "GetVersion" /\ calc.pc = "done")
      => calc.ver = (calc.resp[4] - 48) * 100 + (calc.resp[5] - 48)

\* the same for the major digits up to 2 only
VersionBelowThree ==
    (calc.op = "GetVersion" /\ calc.pc = "done" /\ calc.resp[4] - 48 <= 2)
      => calc.ver = (calc.resp[4] - 48) * 100 + (calc.resp[5] - 48)

\* a version 3.3 was parsed
VersionThreeParsed ==
    /\ calc.op = "GetVersion"
    /\ calc.pc = "done"
    /\ calc.resp[4] = 51
    /\ calc.resp[5] = 51
    /\ calc.ver = 47

(* ------------------------------------------------------------------ *)
(* isPosRangeValid on every pair of positions around the capacity     *)
(* ------------------------------------------------------------------ *)
\* positions up to RangeOver beyond the capacity, and a very large one
Positions == (0..(getMaxPattern(gen) + RangeOver)) \cup {2147483647}

RangeCheck(start, end) ==
    /\ calc.op = "none"
    /\ calc' = [op |-> "isPosRangeValid", s |-> start, e |-> end,
                ok |-> isPosRangeValid(start, end)]
    /\ UNCHANGED << gen, other, devOpen, hidClosed, mu, cmu, quitCh, closedCh, nwd, wd, mt,
                    fg, dv, wire, failBudget, crashed, ncalls, lastCall >>

RangeNext == calc.op = "none" /\ \E start \in Positions, end \in Positions : RangeCheck(start, end)

RangeSpec == Init /\ [][RangeNext]_vars

\* C17: with cap 12 on generation 1 and 32 on generation >= 2, the check
\* accepts exactly the pairs with (start <= end and end < cap) or (start < cap
\* and end = 0): it accepts (0,0), (0,cap-1) and (cap-1,0) and rejects (0,cap)
\* and (5,3).
PosRangeValidExactly ==
    calc.op = "isPosRangeValid"
      => LET cap == IF gen = 1 THEN 12 ELSE 32
         IN  /\ calc.ok <=> \/ (calc.s <= calc.e /\ calc.e < cap)
                            \/ (calc.s < cap /\ calc.e = 0)
             /\ (<< calc.s, calc.e >> \in {<< 0, 0 >>, << 0, cap - 1 >>, << cap - 1, 0 >>})
                  => calc.ok
             /\ (<< calc.s, calc.e >> \in {<< 0, cap >>, << 5, 3 >>}) => ~calc.ok

\* the pair (cap-1, 0) was accepted on a generation-2 device
LastToZeroAccepted ==
    /\ calc.op = "isPosRangeValid"
    /\ gen = 2
    /\ calc.s = 31
    /\ calc.e = 0
    /\ calc.ok

(* ------------------------------------------------------------------ *)
(* Commands on an open device whose transfers may fail                *)
(* ------------------------------------------------------------------ *)
\* Controller.WritePattern: c.dev.SavePattern() under the controller lock
WritePattern == OneCall("WritePattern", << >>, DeviceCmdCall("SavePattern", 0))

SaveNext ==
    \/ \E cmd \in DeviceCmds : DeviceCommand(cmd, 0)
    \/ WritePattern
    \/ DevLock(FG)
    \/ DevWrite(FG)
    \/ DevRead(FG)
    \/ DevSleep(FG)
    \/ FgRet

SaveSpec == LockInit /\ [][SaveNext]_vars

SaveOps == {"SavePattern", "WritePattern"}

IsFailedWrite(x) == x.kind = "W" /\ ~x.ok

\* SavePattern and WritePattern returned success after exactly one write, of
\* the save buffer, whether it succeeded or failed
SaveAlwaysSucceeds ==
    (lastCall.op \in SaveOps /\ lastCall.wasOpen)
      => /\ lastCall.ret = "ok"
         /\ Len(lastCall.log) = 1
         /\ lastCall.log[1].kind = "W"
         /\ lastCall.log[1].buf = << reportID, OpSave, 190, 239, 202, 254, 0, 0, 0 >>

\* C18: SavePattern and Controller.WritePattern on an open device return
\* success after exactly one write of the buffer BE EF CA FE, whether that
\* write succeeded or failed, and no other command returns success after a
\* feature-report write of its buffer failed.
SaveIsOnlySwallowedWrite ==
    /\ SaveAlwaysSucceeds
    /\ (lastCall.op \in DeviceCmds \ SaveOps /\ lastCall.ret = "ok")
         => \A i \in 1..Len(lastCall.log) : ~IsFailedWrite(lastCall.log[i])

\* SavePattern returned success although its write failed
SaveFailedWriteSwallowed ==
    /\ lastCall.op \in SaveOps
    /\ lastCall.ret = "ok"
    /\ Len(lastCall.log) = 1
    /\ IsFailedWrite(lastCall.log[1])

\* a reading command returned success although its write failed
ReadFailedWriteSwallowed ==
    /\ lastCall.op \in {"ReadRGB", "ReadPlaystate", "ReadPatternLine", "GetVersion", "Test"}
    /\ lastCall.ret = "ok"
    /\ \E i \in 1..Len(lastCall.log) : IsFailedWrite(lastCall.log[i])

(* ------------------------------------------------------------------ *)
(* C19: Device.Close                                                  *)
(* ------------------------------------------------------------------ *)
\* the step of Close between its Lock and its deferred Unlock
ClosingStep == dv[FG].prim = "close" /\ dv[FG].pc = "cs" /\ dv'[FG].pc = "ret"

CloseWaitsForHolder ==
    /\ fg.op = "Close"
    /\ dv[FG].pc = "lock"
    /\ \E w \in Watchdogs : dv[w].pc = "cs"

(* ------------------------------------------------------------------ *)
(* Specification of the manual tickle: one goroutine, the signals and *)
(* the close of its caller, and a foreground command beside it        *)
(* ------------------------------------------------------------------ *)
\* ranges, timeouts (one below the minimum, one beyond the largest fade
\* time) and keep flags given to StartManualTickle
ManualArgs == { << 0, 0, 3000, FALSE >>, << 1, 2, maxFadeMsec + 50000, TRUE >>,
                << 2, 1, 3000, FALSE >>, << 0, 0, minTimeDur - 1, FALSE >> }

ManualNext ==
    \/ \E a \in ManualArgs : StartManualTickle(a[1], a[2], a[3], a[4])
    \/ ManualSignal
    \/ ManualClose
    \/ DeviceCommand("FadeToRGB", 0)
    \/ DevLock(FG)
    \/ DevWrite(FG)
    \/ FgRet
    \/ MEnableRet
    \/ MRecvClosed
    \/ MDisableRet
    \/ DevLock(MT)
    \/ DevWrite(MT)

\* the goroutine is scheduled, every transfer returns and sync.Mutex hands
\* the lock to a waiter
ManualFairness ==
    /\ WF_vars(DevWrite(FG))
    /\ WF_vars(MEnableRet)
    /\ WF_vars(MRecvClosed)
    /\ WF_vars(MDisableRet)
    /\ SF_vars(DevLock(MT))
    /\ WF_vars(DevWrite(MT))

ManualSpec == LockInit /\ [][ManualNext]_vars /\ ManualFairness

\* the feature reports the manual tickle goroutine transferred
ManualWrites == SelectSeq(wire, LAMBDA x : x.by = MT)

\* the tickle buffer with play 1, the timeout in units of 10 msec (at most
\* the largest fade time), the keep flag and the positions given
IsManualEnable(x) ==
    LET t == IF mt.tmo > maxFadeMsec THEN maxFadeMsec ELSE mt.tmo
    IN  /\ x.kind = "W"
        /\ x.buf[2] = OpTickle
        /\ x.buf[3] = 1
        /\ x.buf[4] * 256 + x.buf[5] = t \div 10
        /\ x.buf[6] = (IF mt.keep THEN 1 ELSE 0)
        /\ x.buf[7] = mt.s
        /\ x.buf[8] = (IF mt.e = 0 THEN getMaxPattern(gen) ELSE mt.e + 1)

IsManualDisable(x) ==
    /\ x.kind = "W"
    /\ x.buf[2] = OpTickle
    /\ x.buf[3] = 0

\* the writes of the goroutine so far: one enable write per signal, in the
\* order of the signals, then the disable write
ManualWritesMatch ==
    (mt.pc # "none" /\ Len(wire) < MaxWire)
      => LET w == ManualWrites
             pending == dv[MT].pc \in {"lock", "cs"}
         IN  /\ \A i \in 1..Len(w) : i <= mt.sent => IsManualEnable(w[i])
             /\ \A i \in 1..Len(w) : i > mt.sent => IsManualDisable(w[i])
             /\ mt.pc = "recv" => Len(w) = mt.sent
             /\ mt.pc = "enable" => Len(w) = (IF pending THEN mt.sent - 1 ELSE mt.sent)
             /\ mt.pc = "disable" => Len(w) = (IF pending THEN mt.sent ELSE mt.sent + 1)
             /\ mt.pc = "done" => Len(w) = mt.sent + 1
             /\ mt.pc \in {"disable", "done"} => ~mt.open

\* C20: after a successful StartManualTickle every signal causes exactly one
\* tickle-enable write with the given timeout, keep flag and positions, in
\* signal order; nothing is written before the first signal; closing the
\* channel causes exactly one disable write, after which the goroutine has
\* ended and writes nothing more.
ManualTickleProtocol ==
    /\ []ManualWritesMatch
    /\ [][mt.pc = "done" => (mt' = mt /\ ManualWrites' = ManualWrites)]_vars
    /\ (mt.pc = "enable") ~> (mt.pc # "enable" \/ ~Alive)
    /\ (mt.pc # "none" /\ ~mt.open) ~> (mt.pc = "done" \/ ~Alive)

\* a signal and the close were served: the enable write, then the disable
\* write, and the goroutine ended
ManualTickleServed ==
    /\ mt.pc = "done"
    /\ mt.sent >= 1
    /\ Len(wire) < MaxWire
    /\ Len(ManualWrites) = mt.sent + 1
    /\ IsManualEnable(ManualWrites[1])
    /\ IsManualDisable(ManualWrites[Len(ManualWrites)])

(* ------------------------------------------------------------------ *)
(* StopPlaying beside a running auto-tickle watchdog                  *)
(* ------------------------------------------------------------------ *)
\* (mutant of StopPlaying) the quit channel of the watchdog is closed too
StopPlayingStopsTickle ==
    /\ Alive
    /\ fg.op = "idle"
    /\ ~OtHoldsControllerLock
    /\ ncalls < MaxCalls
    /\ ncalls' = ncalls + 1
    /\ fg' = [FgIdle EXCEPT !.op = "StopPlaying", !.pc = "dev"]
    /\ dv' = [dv EXCEPT ![FG] = Begin(SetTickleMode(FALSE, FALSE, 0, 0, 0))]
    /\ cmu' = TRUE
    /\ closedCh' = IF quitCh = 0 THEN closedCh ELSE closedCh \cup {quitCh}
    /\ UNCHANGED << calc, gen, other, devOpen, hidClosed, mu, quitCh, nwd, wd, mt,
                    wire, failBudget, crashed, lastCall >>

\* Controller.StopPlaying: SetTickleMode(false, false, 0, 0, 0) under the
\* controller lock
StopPlaying == OneCall("StopPlaying", << >>, SetTickleMode(FALSE, FALSE, 0, 0, 0))

StopPlayNext ==
    \/ nwd = 0 /\ StartAutoTickle(0, 0, FALSE)
    \/ StopPlaying
    \/ DevLock(FG)
    \/ DevWrite(FG)
    \/ FgRet
    \/ \E w \in Watchdogs :
          \/ Tick(w)
          \/ WSelect(w)
          \/ WTick(w)
          \/ WEnableRet(w)
          \/ DevLock(w)
          \/ DevWrite(w)

\* the goroutines are scheduled, the ticker keeps firing, every transfer
\* returns and sync.Mutex hands the lock to a waiter
StopPlayFairness ==
    /\ \A w \in Watchdogs :
         /\ WF_vars(Tick(w))
         /\ WF_vars(WSelect(w))
         /\ WF_vars(WTick(w))
         /\ WF_vars(WEnableRet(w))
         /\ SF_vars(DevLock(w))
         /\ WF_vars(DevWrite(w))
    /\ SF_vars(DevLock(FG))
    /\ WF_vars(DevWrite(FG))
    /\ WF_vars(FgRet)

StopPlaySpec == LockInit /\ [][StopPlayNext]_vars /\ StopPlayFairness

\* a step of the caller inside StopPlaying
StopPlayingStep ==
    /\ fg.op = "StopPlaying" \/ fg'.op = "StopPlaying"
    /\ fg' # fg \/ dv'[FG] # dv[FG]

\* the watchdog goroutine is in its loop and its quit channel is open
WatchdogRuns(w) ==
    /\ wd[w].pc \in {"loop", "wait", "enable"}
    /\ quitCh # 0
    /\ quitCh \notin closedCh

\* C21: no step of StopPlaying changes the quit channel, the set of closed
\* channels or the state and timer of a watchdog; a watchdog that runs when
\* StopPlaying has returned still runs and completes a further tickle-enable
\* write.
StopPlayingKeepsWatchdog ==
    /\ [][StopPlayingStep => (quitCh' = quitCh /\ closedCh' = closedCh
                               /\ nwd' = nwd /\ wd' = wd)]_vars
    /\ [](lastCall.op = "StopPlaying"
            => \A w \in Watchdogs : wd[w].pc # "none" => WatchdogRuns(w))
    /\ \A w \in Watchdogs :
         (lastCall.op = "StopPlaying" /\ wd[w].pc \in {"loop", "wait"})
           ~> (wd[w].pc = "enable" /\ dv[w].pc = "ret"
                 /\ dv[w].bufs[1][2] = OpTickle /\ dv[w].bufs[1][3] = 1)

\* StopPlaying wrote its disable buffer and returned while a watchdog that
\* had written an enable buffer was waiting for its next tick
StoppedPlayingWhileTickling ==
    /\ lastCall.op = "StopPlaying"
    /\ lastCall.ret = "ok"
    /\ \E w \in Watchdogs : WatchdogRuns(w) /\ wd[w].pc = "wait"
    /\ \E i, j \in 1..Len(wire) :
          /\ i < j
          /\ wire[i].by \in Watchdogs /\ IsTickle(wire[i], 1)
          /\ wire[j].by = FG /\ IsTickle(wire[j], 0)

(* ------------------------------------------------------------------ *)
(* Device.PlayLoop and Device.SetTickleMode over positions and repeat *)
(* counts                                                             *)
(* ------------------------------------------------------------------ *)
\* repeat counts: infinite, small, the largest byte, and beyond it
LoopTimes == {0, 2, maxRepeat, maxRepeat + 1, maxRepeat + 45}

\* positions around the capacity of both generations
LoopPositions == {0, 1, 5, maxPattern - 1, maxPattern, maxPattern2 - 1, maxPattern2,
                  maxPattern2 + 1}

\* Device.PlayLoop(play, posStart, posEnd, times) called by the foreground
PlayLoopCmd(play, posStart, posEnd, times) ==
    /\ Alive
    /\ fg.op = "idle"
    /\ ncalls < MaxCalls
    /\ ncalls' = ncalls + 1
    /\ fg' = [FgIdle EXCEPT !.op = "PlayLoop", !.pc = "dev", !.s = posStart,
                            !.e = posEnd, !.rep = times]
    /\ dv' = [dv EXCEPT ![FG] = Begin(PlayLoop(play, posStart, posEnd, times))]
    /\ UNCHANGED << calc, gen, other, devOpen, hidClosed, mu, cmu, quitCh, closedCh, nwd, wd, mt,
                    wire, failBudget, crashed, lastCall >>

\* Device.SetTickleMode(play, keepOld, posStart, posEnd, timeoutMsec)
SetTickleModeCmd(play, keepOld, posStart, posEnd, timeoutMsec) ==
    /\ Alive
    /\ fg.op = "idle"
    /\ ncalls < MaxCalls
    /\ ncalls' = ncalls + 1
    /\ fg' = [FgIdle EXCEPT !.op = "SetTickleMode", !.pc = "dev", !.s = posStart,
                            !.e = posEnd]
    /\ dv' = [dv EXCEPT ![FG] =
                Begin(SetTickleMode(play, keepOld, posStart, posEnd, timeoutMsec))]
    /\ UNCHANGED << calc, gen, other, devOpen, hidClosed, mu, cmu, quitCh, closedCh, nwd, wd, mt,
                    wire, failBudget, crashed, lastCall >>

\* one command in a run
LoopNext ==
    \/ ncalls = 0 /\ \E play \in BOOLEAN, s \in LoopPositions, e \in LoopPositions,
                        t \in LoopTimes : PlayLoopCmd(play, s, e, t)
    \/ ncalls = 0 /\ \E play \in BOOLEAN, s \in LoopPositions, e \in LoopPositions :
                        SetTickleModeCmd(play, FALSE, s, e, 3000)
    \/ DevLock(FG)
    \/ DevWrite(FG)
    \/ FgRet

LoopSpec == PatternInit /\ [][LoopNext]_vars

\* C22: PlayLoop called with a repeat count above 255 returns an error and
\* writes no buffer, and the repeat byte of every play-loop buffer written
\* equals the repeat count of the caller.
PlayLoopRejectsLargeRepeat ==
    lastCall.op = "PlayLoop"
      => /\ lastCall.rep > maxRepeat
              => (lastCall.ret = "err" /\ lastCall.log = << >>)
         /\ \A i \in 1..Len(lastCall.log) :
              IsOp(lastCall.log[i], OpPlay) => lastCall.log[i].buf[6] = lastCall.rep

\* the same for the repeat counts a byte holds
PlayLoopRepeatByte ==
    (lastCall.op = "PlayLoop" /\ lastCall.rep <= maxRepeat)
      => \A i \in 1..Len(lastCall.log) :
            IsOp(lastCall.log[i], OpPlay) => lastCall.log[i].buf[6] = lastCall.rep

\* PlayLoop with repeat count 256 wrote the repeat byte 0 and returned success
PlayLoopWroteWrappedRepeat ==
    /\ lastCall.op = "PlayLoop"
    /\ lastCall.rep = maxRepeat + 1
    /\ lastCall.ret = "ok"
    /\ Len(lastCall.log) = 1
    /\ lastCall.log[1].buf[6] = 0

Millisecond == 1000000

HexChars == << "0", "1", "2", "3", "4", "5", "6", "7", "8", "9",
               "A", "B", "C", "D", "E", "F" >>

\* fmt "%02X" of a byte
HexOf(b) == << HexChars[(b \div 16) + 1], HexChars[(b % 16) + 1] >>

\* fmt "%d" of a non-negative integer
RECURSIVE DecOf(_)
DecOf(n) ==
    IF n < 10 THEN << HexChars[n + 1] >>
    ELSE DecOf(n \div 10) \o << HexChars[(n % 10) + 1] >>

\* "#%02X%02X%02X" of the high bytes of c.RGBA()
convColorToHex(c) ==
    LET rgb == convColorToRGB(c)
    IN  << "#" >> \o HexOf(rgb[1]) \o HexOf(rgb[2]) \o HexOf(rgb[3])

\* LightState.MarshalText: "%sL%dT%d" of the colour, the LED and the
\* milliseconds of the fade time
MarshalLightState(st) ==
    convColorToHex(st.Color) \o << "L" >> \o DecOf(st.LED) \o << "T" >>
      \o DecOf(st.FadeTime \div Millisecond)

\* strings.Join of the texts of the states with ";"
RECURSIVE MarshalStateSequence(_)
MarshalStateSequence(seq) ==
    IF Len(seq) = 0 THEN << >>
    ELSE IF Len(seq) = 1 THEN MarshalLightState(seq[1])
    ELSE MarshalLightState(seq[1]) \o << ";" >> \o MarshalStateSequence(Tail(seq))

\* strings.ToUpper / strings.ToLower on the letters a text of states holds
UpperOf(ch) ==
    CASE ch = "a" -> "A" [] ch = "b" -> "B" [] ch = "c" -> "C" [] ch = "d" -> "D"
      [] ch = "e" -> "E" [] ch = "f" -> "F" [] ch = "l" -> "L" [] ch = "t" -> "T"
      [] OTHER -> ch

LowerOf(ch) ==
    CASE ch = "A" -> "a" [] ch = "B" -> "b" [] ch = "C" -> "c" [] ch = "D" -> "d"
      [] ch = "E" -> "e" [] ch = "F" -> "f" [] ch = "L" -> "l" [] ch = "T" -> "t"
      [] OTHER -> ch

ToUpper(text) == [i \in 1..Len(text) |-> UpperOf(text[i])]

ToLower(text) == [i \in 1..Len(text) |-> LowerOf(text[i])]

\* the value of a hexadecimal digit, -1 for any other character
HexVal(ch) ==
    IF \E k \in 1..16 : HexChars[k] = ch
    THEN (CHOOSE k \in 1..16 : HexChars[k] = ch) - 1
    ELSE -1

IsHexAt(text, i) == i <= Len(text) /\ HexVal(text[i]) >= 0

IsDecAt(text, i) == i <= Len(text) /\ HexVal(text[i]) \in 0..9

\* (mutant of ScanHexByte) the scan is not limited to two digits
ScanHexByteNoWidth(text, i) ==
    IF ~IsHexAt(text, i) THEN [ok |-> FALSE, val |-> 0, next |-> i]
    ELSE IF ~IsHexAt(text, i + 1)
    THEN [ok |-> TRUE, val |-> HexVal(text[i]), next |-> i + 1]
    ELSE IF ~IsHexAt(text, i + 2)
    THEN [ok |-> TRUE, val |-> HexVal(text[i]) * 16 + HexVal(text[i + 1]),
          next |-> i + 2]
    ELSE [ok |-> FALSE, val |-> 0, next |-> i + 3]

\* Sscanf "%02X" into a uint8 at position i: at most two hexadecimal digits
ScanHexByte(text, i) ==
    IF ~IsHexAt(text, i) THEN [ok |-> FALSE, val |-> 0, next |-> i]
    ELSE IF ~IsHexAt(text, i + 1)
    THEN [ok |-> TRUE, val |-> HexVal(text[i]), next |-> i + 1]
    ELSE [ok |-> TRUE, val |-> HexVal(text[i]) * 16 + HexVal(text[i + 1]),
          next |-> i + 2]

\* the end of the run of decimal digits that starts at position i
RECURSIVE DecEnd(_, _)
DecEnd(text, i) == IF IsDecAt(text, i) THEN DecEnd(text, i + 1) ELSE i

\* the number written by the digits at positions i .. j-1
RECURSIVE DecVal(_, _, _)
DecVal(text, i, j) ==
    IF j <= i THEN 0 ELSE DecVal(text, i, j - 1) * 10 + HexVal(text[j - 1])

\* Sscanf "%d" at position i into an unsigned integer of at most max
ScanDec(text, i, max) ==
    LET j == DecEnd(text, i)
    IN  IF j = i \/ j - i > 9 THEN [ok |-> FALSE, val |-> 0, next |-> i]
        ELSE IF DecVal(text, i, j) > max THEN [ok |-> FALSE, val |-> 0, next |-> j]
        ELSE [ok |-> TRUE, val |-> DecVal(text, i, j), next |-> j]

IsCharAt(text, i, ch) == i <= Len(text) /\ text[i] = ch

NoState == [Color |-> << >>, LED |-> 0, FadeTime |-> 0]

\* LightState.UnmarshalText: Sscanf of the upper-cased text with
\* "#%02X%02X%02XL%dT%d"; what follows the last number is not looked at
UnmarshalLightState(text) ==
    IF Len(text) = 0 THEN [err |-> "errEmptyState", st |-> NoState]
    ELSE LET s == ToUpper(text)
             r == ScanHexByte(s, 2)
             g == ScanHexByte(s, r.next)
             b == ScanHexByte(s, g.next)
             led == ScanDec(s, b.next + 1, 255)
             fade == ScanDec(s, led.next + 1, 2147)
         IN  IF /\ IsCharAt(s, 1, "#")
                /\ r.ok /\ g.ok /\ b.ok
                /\ IsCharAt(s, b.next, "L")
                /\ led.ok
                /\ IsCharAt(s, led.next, "T")
                /\ fade.ok
             THEN [err |-> "nil",
                   st |-> [Color |-> convRGBToColor(r.val, g.val, b.val),
                           LED |-> led.val, FadeTime |-> fade.val * Millisecond]]
             ELSE [err |-> "invalid format", st |-> NoState]

\* strings.Split(text, ";")
RECURSIVE SplitStates(_, _)
SplitStates(text, cur) ==
    IF Len(text) = 0 THEN << cur >>
    ELSE IF Head(text) = ";" THEN << cur >> \o SplitStates(Tail(text), << >>)
    ELSE SplitStates(Tail(text), Append(cur, Head(text)))

\* StateSequence.UnmarshalText: the empty text is the empty sequence; the
\* first state that fails to parse is the error
UnmarshalStateSequence(text) ==
    IF Len(text) = 0 THEN [err |-> "nil", seq |-> << >>]
    ELSE LET ls == SplitStates(text, << >>)
             ps == [i \in 1..Len(ls) |-> UnmarshalLightState(ls[i])]
         IN  IF \E i \in 1..Len(ps) : ps[i].err # "nil"
             THEN [err |-> ps[CHOOSE i \in 1..Len(ps) :
                               /\ ps[i].err # "nil"
                               /\ \A k \in 1..(i - 1) : ps[k].err = "nil"].err,
                   seq |-> << >>]
             ELSE [err |-> "nil", seq |-> [i \in 1..Len(ps) |-> ps[i].st]]

\* colours, LEDs and fade times of the states given to the codec: whole
\* milliseconds of one to four digits, and one that is not whole
TextColors == { << 255, 0, 0 >>, << 0, 10, 171 >>, << 18, 52, 239 >> }

TextFades == {0, 7 * Millisecond, 256 * Millisecond, 1024 * Millisecond,
              2 * Millisecond + 500}

TextStates ==
    { [Color |-> convRGBToColor(c[1], c[2], c[3]), LED |-> l, FadeTime |-> f] :
        c \in TextColors, l \in 0..2, f \in TextFades }

TextSeqs == UNION { [1..n -> TextStates] : n \in 0..MaxTextLen }

\* StateSequence.MarshalText of seq; the text is handed on as it is or in
\* lower case
MarshalText(seq, lower) ==
    /\ calc.op = "none"
    /\ calc' = [op |-> "text", pc |-> "marshalled", seq |-> seq,
                text |-> IF lower THEN ToLower(MarshalStateSequence(seq))
                         ELSE MarshalStateSequence(seq),
                lower |-> lower, err |-> "none", back |-> << >>]
    /\ UNCHANGED << gen, other, devOpen, hidClosed, mu, cmu, quitCh, closedCh, nwd, wd, mt,
                    fg, dv, wire, failBudget, crashed, ncalls, lastCall >>

\* StateSequence.UnmarshalText of that text
UnmarshalText ==
    /\ calc.op = "text"
    /\ calc.pc = "marshalled"
    /\ LET res == UnmarshalStateSequence(calc.text)
       IN  calc' = [calc EXCEPT !.pc = "done", !.err = res.err, !.back = res.seq]
    /\ UNCHANGED << gen, other, devOpen, hidClosed, mu, cmu, quitCh, closedCh, nwd, wd, mt,
                    fg, dv, wire, failBudget, crashed, ncalls, lastCall >>

TextNext ==
    \/ calc.op = "none" /\ \E seq \in TextSeqs, lower \in BOOLEAN : MarshalText(seq, lower)
    \/ UnmarshalText

TextSpec == CodecInit /\ [][TextNext]_vars

WholeMillis(seq) == \A i \in 1..Len(seq) : seq[i].FadeTime % Millisecond = 0

\* the text has the form #RRGGBBLxTms: six upper-case hexadecimal digits,
\* one LED digit and the decimal milliseconds
HasStateForm(text, st) ==
    /\ Len(text) >= 11
    /\ text[1] = "#"
    /\ \A i \in 2..7 : HexVal(text[i]) >= 0
    /\ HexVal(text[2]) * 16 + HexVal(text[3]) = st.Color.r
    /\ HexVal(text[4]) * 16 + HexVal(text[5]) = st.Color.g
    /\ HexVal(text[6]) * 16 + HexVal(text[7]) = st.Color.b
    /\ text[8] = "L"
    /\ HexVal(text[9]) = st.LED
    /\ text[10] = "T"
    /\ \A i \in 11..Len(text) : HexVal(text[i]) \in 0..9
    /\ DecVal(text, 11, Len(text) + 1) * Millisecond = st.FadeTime

\* C23: the text of a sequence of states with opaque 8-bit colours, LED 0, 1
\* or 2 and whole-millisecond fade times decodes without error to the same
\* sequence; the text of one state has the form #RRGGBBLxTms; the empty
\* sequence has the empty text and decodes to the empty sequence.
TextRoundTrip ==
    (calc.op = "text" /\ WholeMillis(calc.seq))
      => /\ (~calc.lower /\ Len(calc.seq) = 1) => HasStateForm(calc.text, calc.seq[1])
         /\ Len(calc.seq) = 0 <=> calc.text = << >>
         /\ calc.pc = "done" => (calc.err = "nil" /\ calc.back = calc.seq)

\* two states, the fade time of one of four digits, went through the text
\* and came back
TwoStatesRoundTrip ==
    /\ calc.op = "text"
    /\ calc.pc = "done"
    /\ Len(calc.seq) = 2
    /\ calc.seq[1] # calc.seq[2]
    /\ calc.seq[2].FadeTime = 1024 * Millisecond
    /\ calc.back = calc.seq

(* ------------------------------------------------------------------ *)
(* Specification of one pattern operation on a transport that may     *)
(* fail as often as the retry wrapper tries                           *)
(* ------------------------------------------------------------------ *)
ExhaustInit == \E b \in {0, opsTryTimes} : InitWith(b)

\* ranges of one and of two positions, the last two positions given by end 0
\* and, on a transport that does not fail, the whole pattern
ExhaustRanges ==
    { << 1, 1 >>, << 1, 2 >>, << getMaxPattern(gen) - 2, 0 >> }
      \cup (IF failBudget = 0 THEN { << 0, 0 >> } ELSE {})

\* lists of up to MaxStates + 1 states and, on a transport that does not
\* fail, one longer by one than the pattern
ExhaustLens ==
    (0..(MaxStates + 1))
      \cup (IF failBudget = 0 THEN { getMaxPattern(gen) + 1 } ELSE {})

ExhaustCalls ==
    \/ \E p \in ExhaustRanges, r \in {1, 3}, n \in 0..MaxStates :
          PlayPatternBlocking(p[1], p[2], r, StatesOfLen(n))
    \/ \E p \in ExhaustRanges, n \in 0..MaxStates : PlayPattern(p[1], p[2], 2, StatesOfLen(n))
    \/ \E p \in ExhaustRanges, n \in ExhaustLens : LoadPattern(p[1], p[2], StatesOfLen(n))

\* one operation in a run
ExhaustNext ==
    \/ (ncalls = 0 /\ ExhaustCalls)
    \/ LoadRet
    \/ PlayRet
    \/ ReadbackRet
    \/ DevLock(FG)
    \/ DevWrite(FG)
    \/ DevRead(FG)

ExhaustSpec == ExhaustInit /\ [][ExhaustNext]_vars

\* a ReadFeature transfer of a pattern-line read, and a successful one
IsLineRead(x) == x.kind = "R" /\ x.buf[2] = OpReadLine

IsOkLineRead(x) == IsLineRead(x) /\ x.ok

\* the fade times of the lines read, added up
RECURSIVE SumOfFades(_)
SumOfFades(rs) ==
    IF Len(rs) = 0 THEN 0
    ELSE (rs[1].resp[6] * 256 + rs[1].resp[7]) * 10 + SumOfFades(Tail(rs))

\* the play-loop command of the operation was written
PlayLoopWritten(log) == \E i \in 1..Len(log) : IsOp(log[i], OpPlay) /\ log[i].ok

\* C28: PlayPatternBlocking with repeat r > 0 whose PlayPattern succeeded
\* reads the lines start, start+1, ... in increasing order, each with at most
\* 3 attempts; when it returns success it has read every line up to the
\* resolved end (capacity-1 for end 0) and slept the sum of the fade times
\* read times r; when a line failed on all 3 attempts it returns an error
\* and has not slept.
BlockingReadsBackRange ==
    (/\ lastCall.op = "PlayPatternBlocking"
     /\ lastCall.rep > 0
     /\ lastCall.ret # "none"
     /\ PlayLoopWritten(lastCall.log))
    => LET log == lastCall.log
           reads == SelectSeq(log, IsLineRead)
           oks == SelectSeq(log, IsOkLineRead)
           endPos == IF lastCall.e = 0 THEN getMaxPattern(gen) - 1 ELSE lastCall.e
           tries(p) == Cardinality({i \in 1..Len(reads) : reads[i].buf[8] = p})
       IN  /\ \A k \in 1..Len(oks) : oks[k].buf[8] = lastCall.s + k - 1
           /\ \A i, j \in 1..Len(reads) : i <= j => reads[i].buf[8] <= reads[j].buf[8]
           /\ \A i \in 1..Len(reads) :
                /\ reads[i].buf[8] \in lastCall.s..endPos
                /\ tries(reads[i].buf[8]) <= opsTryTimes
           /\ lastCall.ret \in {"ok", "err"}
           /\ lastCall.ret = "ok"
                => /\ Len(oks) = endPos - lastCall.s + 1
                   /\ lastCall.slept = SumOfFades(oks) * lastCall.rep
           /\ lastCall.ret = "err"
                => /\ lastCall.slept = 0
                   /\ Len(oks) < endPos - lastCall.s + 1
                   /\ tries(lastCall.s + Len(oks)) = opsTryTimes
                   /\ ~reads[Len(reads)].ok
           /\ tries(lastCall.s + Len(oks)) = opsTryTimes => lastCall.ret = "err"

\* the two lines of a range were read back, one of them at the third attempt,
\* and the caller slept three times their fade time
ReadBackAfterRetries ==
    /\ lastCall.op = "PlayPatternBlocking"
    /\ lastCall.rep = 3
    /\ lastCall.ret = "ok"
    /\ lastCall.slept = 30
    /\ Len(SelectSeq(lastCall.log, IsLineRead)) = 4
    /\ Len(SelectSeq(lastCall.log, IsOkLineRead)) = 2

\* a line failed on all three attempts and the operation returned the error
ReadBackGaveUp ==
    /\ lastCall.op = "PlayPatternBlocking"
    /\ lastCall.ret = "err"
    /\ PlayLoopWritten(lastCall.log)
    /\ Len(SelectSeq(lastCall.log, IsOkLineRead)) = 1

IsOkLine(x) == IsLine(x) /\ x.ok

\* C29: LoadPattern with n >= 1 states and a valid range writes pattern lines
\* to the positions start, start+1, ... only, state i+1 to position start+i,
\* never beyond the range (end 0 being capacity-1) nor beyond the states given;
\* when it returns success it has written exactly min(n, end-start+1) lines,
\* and it returns success whenever no transfer failed, also when states were
\* left over.
LoadWritesConsecutiveLines ==
    (/\ lastCall.op = "LoadPattern"
     /\ lastCall.ret # "none"
     /\ Len(lastCall.sts) >= 1
     /\ isPosRangeValid(lastCall.s, lastCall.e))
    => LET log == lastCall.log
           n == Len(lastCall.sts)
           endPos == IF lastCall.e = 0 THEN getMaxPattern(gen) - 1 ELSE lastCall.e
           room == endPos - lastCall.s + 1
           m == IF n < room THEN n ELSE room
           oks == SelectSeq(log, IsOkLine)
       IN  /\ \A i \in 1..Len(log) :
                IsLine(log[i]) => log[i].buf[8] \in lastCall.s..(lastCall.s + m - 1)
           /\ \A k \in 1..Len(oks) :
                /\ oks[k].buf[8] = lastCall.s + k - 1
                /\ RGBOf(oks[k].buf) = GammaImage(<< lastCall.sts[k].r, lastCall.sts[k].g,
                                                    lastCall.sts[k].b >>)
                /\ oks[k].buf[6] * 256 + oks[k].buf[7] = lastCall.sts[k].fade \div 10
           /\ lastCall.ret = "ok" => Len(oks) = m
           /\ (\A i \in 1..Len(log) : log[i].ok)
                => (lastCall.ret = "ok" /\ Len(SelectSeq(log, IsLine)) = m)

\* three states were given for a range of two positions: two lines were
\* written and the call returned success
LoadDroppedState ==
    /\ lastCall.op = "LoadPattern"
    /\ lastCall.ret = "ok"
    /\ Len(lastCall.sts) = 3
    /\ lastCall.s = 1
    /\ lastCall.e = 2
    /\ Len(SelectSeq(lastCall.log, IsOkLine)) = 2

\* one state was given for the last two positions: only the first of them
\* was written
LoadLeftRangeUnwritten ==
    /\ lastCall.op = "LoadPattern"
    /\ lastCall.ret = "ok"
    /\ Len(lastCall.sts) = 1
    /\ lastCall.e = 0
    /\ lastCall.s = getMaxPattern(gen) - 2
    /\ Len(SelectSeq(lastCall.log, IsLine)) = 1

\* a failed transfer of SetPatternLine: its LED-select or its line buffer
IsFailedLineWrite(x) == x.kind = "W" /\ ~x.ok /\ x.buf[2] \in {OpLedN, OpSetLine}

\* three attempts of one position failed: three failed transfers of
\* SetPatternLine, the last at index k, with no line written between them
ExhaustedAt(log, k) ==
    \E i, j \in 1..Len(log) :
       /\ i < j
       /\ j < k
       /\ IsFailedLineWrite(log[i])
       /\ IsFailedLineWrite(log[j])
       /\ IsFailedLineWrite(log[k])
       /\ \A m \in i..k : ~IsOkLine(log[m])

\* C30: when the write of a pattern line failed on all 3 attempts, the third
\* failed transfer is the last transfer of LoadPattern, which returns an
\* error: no later position and no play-loop command is written, and
\* PlayPattern returns the error.
ExhaustedLoadStops ==
    (lastCall.op \in {"LoadPattern", "PlayPattern", "PlayPatternBlocking"}
       /\ lastCall.ret # "none")
    => \A k \in 1..Len(lastCall.log) :
          ExhaustedAt(lastCall.log, k)
            => /\ k = Len(lastCall.log)
               /\ lastCall.ret = "err"
               /\ lastCall.slept = 0
               /\ \A m \in 1..Len(lastCall.log) :
                     /\ ~IsOp(lastCall.log[m], OpPlay)
                     /\ IsLine(lastCall.log[m])
                          => lastCall.log[m].buf[8]
                               <= lastCall.s + Len(SelectSeq(lastCall.log, IsOkLine))

\* PlayPattern wrote its first line, failed three times on the second and
\* returned the error
SecondLineExhausted ==
    /\ lastCall.op = "PlayPattern"
    /\ lastCall.ret = "err"
    /\ Len(lastCall.log) >= 4
    /\ ExhaustedAt(lastCall.log, Len(lastCall.log))
    /\ Len(SelectSeq(lastCall.log, IsOkLine)) = 1

(* ------------------------------------------------------------------ *)
(* C24, C25: a replaced watchdog and a closed device                  *)
(* ------------------------------------------------------------------ *)
\* C24: every tickle-enable buffer of a watchdog started by a StartAutoTickle
\* that replaced a running one comes after the disable buffer of the watchdog
\* it replaced.
PriorDisablesBeforeNewEnables ==
    \A j \in 1..Len(wire) :
       (wire[j].by \in Watchdogs /\ wire[j].by > 1 /\ IsTickle(wire[j], 1))
         => \E i \in 1..(j - 1) : wire[i].by = wire[j].by - 1 /\ IsTickle(wire[i], 0)

\* the second watchdog wrote its enable buffer while the first one, replaced,
\* had written no disable buffer and was still in its loop
NewEnabledBeforePriorDisabled ==
    /\ nwd = 2
    /\ wd[1].pc \in {"loop", "wait", "enable"}
    /\ \E j \in 1..Len(wire) : wire[j].by = 2 /\ IsTickle(wire[j], 1)
    /\ \A i \in 1..Len(wire) : ~(wire[i].by = 1 /\ IsTickle(wire[i], 0))

\* a step of the caller inside Close
CloseStep ==
    /\ fg.op = "Close" \/ fg'.op = "Close"
    /\ fg' # fg \/ dv'[FG] # dv[FG]

\* C25: no step of Close changes the quit channel, the closed channels or a
\* watchdog; on a closed device no watchdog panics and the process lives on
\* (the write of a tick returns an error that is dropped); and a watchdog
\* whose channel StopAutoTickle closed returns, also on a closed device.
WatchdogSurvivesClose ==
    /\ [][CloseStep => (quitCh' = quitCh /\ closedCh' = closedCh /\ wd' = wd)]_vars
    /\ [](~devOpen => /\ \A w \in Watchdogs : dv[w].pc # "panic"
                      /\ crashed # "nil pointer dereference")
    /\ \A w \in Watchdogs : (StoppedByStop(w) /\ ~devOpen) ~> (wd[w].pc = "done")

\* a watchdog ticked after Close and the process ended in its panic
WatchdogPanickedAfterClose ==
    /\ ~devOpen
    /\ ~Alive
    /\ \E w \in Watchdogs : dv[w].pc = "panic" /\ wd[w].pc = "enable"

(* ------------------------------------------------------------------ *)
(* C27: the layout of every command buffer                            *)
(* ------------------------------------------------------------------ *)
\* the opcodes of the buffers a device command hands to the transport
OpcodesOf(cmd) ==
    CASE cmd = "FadeToRGB" -> {OpFade}
      [] cmd = "SetRGBNow" -> {OpSetNow}
      [] cmd = "ReadRGB" -> {OpReadRGB}
      [] cmd = "PlayLoop" -> {OpPlay}
      [] cmd = "ReadPlaystate" -> {OpPlayState}
      [] cmd = "SetPatternLine" -> {OpLedN, OpSetLine}
      [] cmd = "ReadPatternLine" -> {OpReadLine}
      [] cmd \in {"SavePattern", "WritePattern"} -> {OpSave}
      [] cmd = "SetTickleMode" -> {OpTickle}
      [] cmd = "GetVersion" -> {OpVersion}
      [] cmd = "Test" -> {OpTest}
      [] OTHER -> {}

\* the indices (from 1) of the bytes after the opcode that a command sets
BytesSetBy(op) ==
    CASE op \in {OpFade, OpSetLine, OpTickle} -> 3..8
      [] op = OpSetNow -> {3, 4, 5, 8}
      [] op \in {OpReadRGB, OpReadLine} -> {8}
      [] op \in {OpPlay, OpSave} -> 3..6
      [] op = OpLedN -> {3}
      [] OTHER -> {}

WellFormedBuf(buf) ==
    /\ Len(buf) = cmdBufSize
    /\ buf[1] = reportID
    /\ \A i \in 3..cmdBufSize : i \notin BytesSetBy(buf[2]) => buf[i] = 0
    /\ \A i \in 1..cmdBufSize : buf[i] \in 0..255

\* C27: every buffer handed to the transport has 9 bytes, the report ID 1 in
\* byte 0, the opcode of its command in byte 1 and zero in every byte the
\* command does not set, byte 8 of every command and bytes 5 and 6 of
\* set-RGB-now among them.
BuffersAreWellFormed ==
    /\ \A i \in 1..Len(wire) :
          /\ WellFormedBuf(wire[i].buf)
          /\ wire[i].buf[9] = 0
          /\ wire[i].buf[2] = OpSetNow => (wire[i].buf[6] = 0 /\ wire[i].buf[7] = 0)
    /\ \A i \in 1..Len(fg.log) :
          /\ WellFormedBuf(fg.log[i].buf)
          /\ fg.log[i].buf[2] \in OpcodesOf(fg.op)
    /\ \A i \in 1..Len(lastCall.log) : lastCall.log[i].buf[2] \in OpcodesOf(lastCall.op)

\* a set-RGB-now buffer and the two buffers of SetPatternLine were written
ThreeLayoutsWritten ==
    /\ gen = 2
    /\ \E i \in 1..Len(wire) : IsOp(wire[i], OpSetNow) /\ wire[i].buf[8] = 0
    /\ \E i \in 1..Len(wire) : IsOp(wire[i], OpLedN) /\ wire[i].buf[3] = 1
    /\ \E i \in 1..Len(wire) : IsOp(wire[i], OpSetLine) /\ wire[i].buf[3] = 255

(* ------------------------------------------------------------------ *)
(* C31: transport errors of the device commands                       *)
(* ------------------------------------------------------------------ *)
ReadingCmds == {"ReadRGB", "ReadPlaystate", "ReadPatternLine", "GetVersion", "Test"}

\* a transfer of the call (a feature-report write or a read-back) failed
TransferFailed(call) == \E i \in 1..Len(call.log) : ~call.log[i].ok

\* C31: every device command other than SavePattern, the reading commands
\* ReadRGB, ReadPlaystate, ReadPatternLine, GetVersion and Test included,
\* returns an error to its caller when the feature-report write of its
\* command buffer failed or its read-back failed.
TransportErrorsSurfaced ==
    (/\ lastCall.op \in DeviceCmds \ {"SavePattern"}
     /\ lastCall.ret # "none"
     /\ TransferFailed(lastCall))
    => lastCall.ret = "err"

\* the part of C31 the code keeps: a writing command returns the error of a
\* failed write, and every command returns the error of a failed read-back
WriteAndReadBackErrorsSurfaced ==
    (/\ lastCall.op \in DeviceCmds \ {"SavePattern"}
     /\ lastCall.ret # "none"
     /\ \E i \in 1..Len(lastCall.log) :
           /\ ~lastCall.log[i].ok
           /\ lastCall.log[i].kind = "R" \/ lastCall.op \notin ReadingCmds)
    => lastCall.ret = "err"

\* Test returned success although the write of its command buffer failed
TestFailedWriteSwallowed ==
    /\ lastCall.op = "Test"
    /\ lastCall.ret = "ok"
    /\ Len(lastCall.log) = 2
    /\ IsFailedWrite(lastCall.log[1])
    /\ lastCall.log[2].kind = "R" /\ lastCall.log[2].ok

(* ------------------------------------------------------------------ *)
(* C32: where the suspensions are spent (the settle delay of Test,    *)
(* the cooldown of retryWorkload) beside a running watchdog           *)
(* ------------------------------------------------------------------ *)
DelayNext ==
    \/ DeviceCommand("Test", 0)
    \/ \E n \in 1..MaxStates : LoadPattern(0, 0, StatesOfLen(n))
    \/ nwd = 0 /\ StartAutoTickle(0, 0, FALSE)
    \/ DevLock(FG)
    \/ DevWrite(FG)
    \/ DevRead(FG)
    \/ DevSleep(FG)
    \/ FgRet
    \/ LoadRet
    \/ \E w \in Watchdogs :
          \/ Tick(w)
          \/ WSelect(w)
          \/ WTick(w)
          \/ WEnableRet(w)
          \/ DevLock(w)
          \/ DevWrite(w)

DelaySpec == LockInit /\ [][DelayNext]_vars

\* delayRead of thread t has written its buffer and has not yet come back
\* from time.Sleep(delayMs)
InSettleDelay(t) == dv[t].prim = "delayRead" /\ dv[t].n = 1

\* an attempt of retryWorkload failed and the caller is in
\* time.Sleep(opsInterval) before the next one
InRetryCooldown ==
    /\ fg.pc \in {"load", "readback"}
    /\ dv[FG].pc = "ret"
    /\ dv[FG].res = "err"

\* the transport mutex is held by thread t
HoldsTransportLock(t) == mu /\ InCS(t)

\* the retry cooldown is never spent holding the transport lock
CooldownOutsideLock == InRetryCooldown => ~HoldsTransportLock(FG)

\* C32: neither the settle delay of Test nor the retry cooldown is spent
\* holding the transport lock, so that another operation (a watchdog tick)
\* can acquire the lock and write its buffer meanwhile.
SuspensionsOutsideLock ==
    /\ \A t \in Threads : InSettleDelay(t) => ~HoldsTransportLock(t)
    /\ CooldownOutsideLock

\* what the code does: Test holds the transport lock from its write to its
\* read-back, and nothing is transferred by another thread in between
SettleDelayHoldsLock ==
    /\ [](\A t \in Threads : InSettleDelay(t) => HoldsTransportLock(t))
    /\ [][\A t \in Threads :
            (InSettleDelay(t) /\ wire' # wire) => wire'[Len(wire')].by = t]_vars

\* a watchdog waits for the transport lock while Test is in its delay
TickWaitsForTestDelay ==
    /\ InSettleDelay(FG)
    /\ HoldsTransportLock(FG)
    /\ \E w \in Watchdogs : wd[w].pc = "enable" /\ dv[w].pc = "lock"

\* a watchdog tick wrote its buffer during the cooldown after a failed
\* pattern-line write
TickDuringCooldown ==
    /\ InRetryCooldown
    /\ Len(wire) >= 2
    /\ wire[Len(wire)].by \in Watchdogs
    /\ wire[Len(wire) - 1].by = FG /\ ~wire[Len(wire) - 1].ok

(* ------------------------------------------------------------------ *)
(* C33: LoadPattern beside a running watchdog                         *)
(* ------------------------------------------------------------------ *)
\* LoadPattern is between two Device calls of its loop: a SetPatternLine
\* returned, or the next one waits for the transport lock
BetweenLineWrites ==
    /\ fg.op = "LoadPattern"
    /\ fg.pc = "load"
    /\ dv[FG].pc \in {"ret", "lock"}

\* C33: whenever LoadPattern is between two pattern-line writes the transport
\* lock is free unless another thread has taken it, and a watchdog that waits
\* for the lock can take it; every line write of LoadPattern was made holding
\* the lock.
LoadReleasesLockBetweenLines ==
    /\ BetweenLineWrites
         => /\ ~HoldsTransportLock(FG)
            /\ mu => \E w \in Watchdogs : HoldsTransportLock(w)
            /\ \A w \in Watchdogs : (dv[w].pc = "lock" /\ ~mu) => ENABLED DevLock(w)
    /\ \A i \in 1..Len(wire) : wire[i].held

\* C33 witness: LoadPattern(0, 0, two states) returned success after a
\* watchdog's tickle-enable buffer was written between its pattern-line
\* writes for positions 0 and 1
TickBetweenLineWrites ==
    /\ gen = 1
    /\ lastCall.op = "LoadPattern"
    /\ lastCall.ret = "ok"
    /\ Len(lastCall.sts) = 2
    /\ Len(wire) = 3
    /\ \A i \in 1..3 : wire[i].ok
    /\ wire[1].by = FG /\ IsLine(wire[1]) /\ wire[1].buf[8] = 0
    /\ wire[2].by \in Watchdogs /\ IsTickle(wire[2], 1)
    /\ wire[3].by = FG /\ IsLine(wire[3]) /\ wire[3].buf[8] = 1

(* ------------------------------------------------------------------ *)
(* C34: the enable command of the auto-tickle watchdog                *)
(* ------------------------------------------------------------------ *)
\* the tickle-enable buffer for the arguments goroutine w was started with:
\* play 1, timeout 3000 ms as the pair 0x01, 0x2C, keep flag, start, and the
\* end position as SetTickleMode stores it
AutoEnableBuf(w) ==
    << reportID, OpTickle, 1, 1, 44, convBoolToByte(wd[w].keep), wd[w].s,
       IF wd[w].e = 0 THEN getMaxPattern(gen) ELSE wd[w].e + 1, 0 >>

\* a step of StartAutoTickle
StartAutoTickleStep == fg.op = "idle" /\ fg'.op = "idle" /\ ncalls' # ncalls
                         /\ lastCall'.op = "StartAutoTickle"

\* C34: every tickle-enable buffer written by an auto-tickle goroutine is the
\* one for timeout 3000 ms (bytes 0x01, 0x2C) with the keep flag and the
\* positions given to StartAutoTickle; StartAutoTickle itself transfers
\* nothing, and a goroutine starts an enable command only by taking a tick of
\* its ticker.
AutoTickleEnableBuffer ==
    /\ [](\A i \in 1..Len(wire) :
            (wire[i].by \in Watchdogs /\ IsTickle(wire[i], 1))
              => wire[i].buf = AutoEnableBuf(wire[i].by))
    /\ [](lastCall.op = "StartAutoTickle" => lastCall.log = << >>)
    /\ [][StartAutoTickleStep => (wire' = wire /\ dv' = dv)]_vars
    /\ [][\A w \in Watchdogs :
            (wd[w].pc # "enable" /\ wd'[w].pc = "enable")
              => (wd[w].ticked /\ ~wd'[w].ticked)]_vars

\* C34 witness: the goroutine started by StartAutoTickle(1, 2, true) wrote
\* its enable buffer: timeout 0x01 0x2C, keep 1, start 1, end 3
AutoTickleEnabledInnerRange ==
    \E i \in 1..Len(wire) :
      /\ wire[i].by \in Watchdogs
      /\ wire[i].ok
      /\ wire[i].buf = << 1, OpTickle, 1, 1, 44, 1, 1, 3, 0 >>

(* ------------------------------------------------------------------ *)
(* C35: the buffer of StopPlaying                                     *)
(* ------------------------------------------------------------------ *)
\* StopPlaying returned after exactly one transfer, a write of buf
StopPlayingWroteOnly(buf) ==
    (lastCall.op = "StopPlaying" /\ lastCall.ret \in {"ok", "err"})
    => /\ Len(lastCall.log) = 1
       /\ lastCall.log[1].kind = "W"
       /\ lastCall.log[1].buf = buf

\* C35: StopPlaying, when it returns, has issued exactly one tickle-mode
\* command, in which the play flag, the timeout pair, the keep flag and both
\* the start and the end position fields are zero.
StopPlayingAllZero ==
    StopPlayingWroteOnly(<< reportID, OpTickle, 0, 0, 0, 0, 0, 0, 0 >>)

\* C35 as amended: StopPlaying, when it returns, has issued exactly one
\* tickle-mode command, in which the play flag, the timeout pair, the keep
\* flag and the start position field are zero and the end position field holds the pattern capacity of
\* the device (12 or 32).
StopPlayingEndIsCapacity ==
    StopPlayingWroteOnly(<< reportID, OpTickle, 0, 0, 0, 0, 0, getMaxPattern(gen), 0 >>)

\* C35 witness: StopPlaying returned success on a generation 2 device after
\* writing the end position 32
StopPlayingWroteCapacity ==
    /\ gen = 2
    /\ lastCall.op = "StopPlaying"
    /\ lastCall.ret = "ok"
    /\ Len(lastCall.log) = 1
    /\ lastCall.log[1].ok
    /\ lastCall.log[1].buf[7] = 0
    /\ lastCall.log[1].buf[8] = maxPattern2

(* ------------------------------------------------------------------ *)
(* C36: StartAutoTickle with an invalid range beside a running        *)
(* watchdog                                                           *)
(* ------------------------------------------------------------------ *)
RejectNext ==
    \/ \E a \in TickleArgs :
          /\ nwd = 0 \/ ~isPosRangeValid(a[1], a[2])
          /\ StartAutoTickle(a[1], a[2], a[3])
    \/ \E w \in Watchdogs :
          \/ Tick(w)
          \/ WSelect(w)
          \/ WTick(w)
          \/ WEnableRet(w)
          \/ DevLock(w)
          \/ DevWrite(w)

\* the goroutine is scheduled, its ticker keeps firing and its transfers
\* return
RejectFairness ==
    \A w \in Watchdogs :
      /\ WF_vars(Tick(w))
      /\ WF_vars(WSelect(w))
      /\ WF_vars(WTick(w))
      /\ WF_vars(WEnableRet(w))
      /\ SF_vars(DevLock(w))
      /\ WF_vars(DevWrite(w))

RejectSpec == Init /\ [][RejectNext]_vars /\ RejectFairness

\* the last call was a StartAutoTickle that returned the position error
TickleRejected ==
    lastCall.op = "StartAutoTickle" /\ lastCall.ret = "errInvalidPosition"

\* C36: StartAutoTickle with an invalid range returns the invalid-position
\* error; its step leaves the quit channel, the closed channels, the
\* goroutines and the wire as they were (nothing closed or replaced, no
\* disable sent); a watchdog running at that time still runs and goes on to
\* complete a further tickle-enable write.
InvalidStartLeavesWatchdog ==
    /\ []((lastCall.op = "StartAutoTickle" /\ InvalidRange(lastCall.s, lastCall.e))
            => TickleRejected)
    /\ [][(StartAutoTickleStep /\ InvalidRange(lastCall'.s, lastCall'.e))
            => (quitCh' = quitCh /\ closedCh' = closedCh /\ nwd' = nwd /\ wd' = wd
                  /\ wire' = wire /\ dv' = dv)]_vars
    /\ [](\A i \in 1..Len(wire) : ~IsTickle(wire[i], 0))
    /\ \A w \in Watchdogs :
         (TickleRejected /\ lastCall.pre = "Running" /\ wd[w].pc \in {"loop", "wait"})
           ~> (WatchdogRuns(w) /\ wd[w].pc = "enable" /\ dv[w].pc = "ret"
                 /\ dv[w].bufs[1] = AutoEnableBuf(w))

\* C36 witness: a StartAutoTickle with the end position at the capacity was
\* rejected while a watchdog was running, and the watchdog, still running, has
\* completed an enable write
InvalidStartWhileTickling ==
    /\ TickleRejected
    /\ lastCall.pre = "Running"
    /\ lastCall.e = getMaxPattern(gen)
    /\ \E w \in Watchdogs :
          /\ WatchdogRuns(w)
          /\ wd[w].pc = "enable" /\ dv[w].pc = "ret" /\ dv[w].res = "ok"

(* ------------------------------------------------------------------ *)
(* C39: accesses of the field Controller.quitCh                       *)
(* ------------------------------------------------------------------ *)
\* goroutine w is about to evaluate c.quitCh in its select; it holds no lock
AboutToReadQuitField(w) == wd[w].pc = "loop"

\* the channel StartAutoTickle made for goroutine w
OwnChannel(w) == w

\* C39: the field c.quitCh is not read by a watchdog goroutine unordered with
\* its replacement by StartAutoTickle: no goroutine is about to read the
\* field after StartAutoTickle replaced the channel it was started with, and
\* the channel a goroutine selects on is the one it was started with.
QuitFieldAccessOrdered ==
    \A w \in Watchdogs :
      /\ AboutToReadQuitField(w) => quitCh = OwnChannel(w)
      /\ wd[w].pc = "wait" => wd[w].q = OwnChannel(w)

\* the first goroutine selects on the channel of the second one, which it
\* read from the field after StartAutoTickle replaced it
ReadReplacedChannel ==
    /\ nwd = 2
    /\ wd[1].pc = "wait"
    /\ wd[1].q = 2
    /\ 1 \in closedCh

(* ------------------------------------------------------------------ *)
(* A second caller (thread OT) makes one controller call beside the   *)
(* foreground caller: StopPlaying, StopAutoTickle, StartAutoTickle or *)
(* Close                                                              *)
(* ------------------------------------------------------------------ *)
OtherOps == {"StopPlaying", "StopAutoTickle", "StartAutoTickle", "Close"}

\* the second caller calls op: Close goes to c.dev.Close() at once, the other
\* operations first wait in c.mu.Lock()
OtherCall(op) ==
    /\ Alive
    /\ other.pc = "idle"
    /\ IF op = "Close"
       THEN /\ other' = [op |-> op, pc |-> "dev", ret |-> "none"]
            /\ dv' = [dv EXCEPT ![OT] = Begin(Call("close", << >>))]
       ELSE /\ other' = [op |-> op, pc |-> "lock", ret |-> "none"]
            /\ UNCHANGED dv
    /\ UNCHANGED << calc, gen, devOpen, hidClosed, mu, cmu, quitCh, closedCh, nwd, wd, mt,
                    fg, wire, failBudget, crashed, lastCall, ncalls >>

\* StopPlaying of the second caller got the controller lock and calls
\* SetTickleMode(false, false, 0, 0, 0)
OtherStopPlaying ==
    /\ Alive
    /\ other.pc = "lock"
    /\ other.op = "StopPlaying"
    /\ ~cmu
    /\ other' = [other EXCEPT !.pc = "dev"]
    /\ dv' = [dv EXCEPT ![OT] = Begin(SetTickleMode(FALSE, FALSE, 0, 0, 0))]
    /\ UNCHANGED << calc, gen, devOpen, hidClosed, mu, cmu, quitCh, closedCh, nwd, wd, mt,
                    fg, wire, failBudget, crashed, lastCall, ncalls >>

\* StopAutoTickle of the second caller, from c.mu.Lock() to its return
OtherStopAutoTickle ==
    /\ Alive
    /\ other.pc = "lock"
    /\ other.op = "StopAutoTickle"
    /\ ~cmu
    /\ IF quitCh = 0
       THEN /\ other' = [other EXCEPT !.pc = "done", !.ret = "ok"]
            /\ UNCHANGED << closedCh, crashed >>
       ELSE IF quitCh \in closedCh
       THEN /\ crashed' = "close of closed channel"
            /\ other' = [other EXCEPT !.ret = "panic"]
            /\ UNCHANGED closedCh
       ELSE /\ closedCh' = closedCh \cup {quitCh}
            /\ other' = [other EXCEPT !.pc = "done", !.ret = "ok"]
            /\ UNCHANGED crashed
    /\ UNCHANGED << calc, gen, devOpen, hidClosed, mu, cmu, quitCh, nwd, wd, mt, dv, fg,
                    wire, failBudget, lastCall, ncalls >>

\* StartAutoTickle(0, 0, false) of the second caller, from c.mu.Lock() to its
\* return
OtherStartAutoTickle ==
    /\ Alive
    /\ other.pc = "lock"
    /\ other.op = "StartAutoTickle"
    /\ ~cmu
    /\ IF ~isPosRangeValid(0, 0)
       THEN /\ other' = [other EXCEPT !.pc = "done", !.ret = "errInvalidPosition"]
            /\ UNCHANGED << quitCh, closedCh, nwd, wd, crashed >>
       ELSE IF quitCh # 0 /\ quitCh \in closedCh
       THEN /\ crashed' = "close of closed channel"
            /\ other' = [other EXCEPT !.ret = "panic"]
            /\ UNCHANGED << quitCh, closedCh, nwd, wd >>
       ELSE /\ nwd < MaxWatchdogs
            /\ closedCh' = IF quitCh # 0 THEN closedCh \cup {quitCh} ELSE closedCh
            /\ quitCh' = nwd + 1
            /\ nwd' = nwd + 1
            /\ wd' = [wd EXCEPT ![nwd + 1] =
                        [pc |-> "loop", q |-> 0, ticked |-> FALSE, s |-> 0, e |-> 0,
                         keep |-> FALSE,
                         tmo |-> autoTickleMsec + (autoTickleMsec \div 2),
                         dis |-> 0]]
            /\ other' = [other EXCEPT !.pc = "done", !.ret = "ok"]
            /\ UNCHANGED crashed
    /\ UNCHANGED << calc, gen, devOpen, hidClosed, mu, cmu, mt, dv, fg, wire, failBudget,
                    lastCall, ncalls >>

\* the Device call of the second caller returned: the deferred c.mu.Unlock()
\* runs (Close holds no controller lock) and the operation returns
OtherRet ==
    /\ Alive
    /\ other.pc = "dev"
    /\ dv[OT].pc = "ret"
    /\ other' = [other EXCEPT !.pc = "done", !.ret = dv[OT].res]
    /\ dv' = [dv EXCEPT ![OT] = DvIdle]
    /\ UNCHANGED << calc, gen, devOpen, hidClosed, mu, cmu, quitCh, closedCh, nwd, wd, mt,
                    fg, wire, failBudget, crashed, lastCall, ncalls >>

(* ------------------------------------------------------------------ *)
(* C37: the controller lock and the transport lock, with two callers, *)
(* the watchdog and the manual tickle goroutine                       *)
(* ------------------------------------------------------------------ *)
\* repeat counts given to PlayPatternBlocking: forever and twice
ContendRepeats == {0, 2}

\* the operations of the foreground caller that hold the controller lock
\* over a Device call; it makes one of them, after its tickle calls
LockingOps == {"PlayPattern", "PlayPatternBlocking", "StopPlaying"}

ContendNext ==
    \/ quitCh = 0 /\ StartAutoTickle(0, 0, FALSE)
    \/ lastCall.op \notin LockingOps /\ PlayPattern(1, 1, 2, StatesOfLen(1))
    \/ \E r \in ContendRepeats :
          lastCall.op \notin LockingOps /\ PlayPatternBlocking(1, 1, r, StatesOfLen(1))
    \/ lastCall.op \notin LockingOps /\ StopPlaying
    \/ StartManualTickle(0, 0, 3000, FALSE)
    \/ ManualSignal
    \/ ManualClose
    \/ \E op \in {"StopPlaying", "StopAutoTickle"} : OtherCall(op)
    \/ OtherStopPlaying
    \/ OtherStopAutoTickle
    \/ OtherRet
    \/ LoadRet
    \/ PlayRet
    \/ ReadbackRet
    \/ FgRet
    \/ MEnableRet
    \/ MRecvClosed
    \/ MDisableRet
    \/ DevRead(FG)
    \/ \E t \in {FG, MT, OT} : DevLock(t) \/ DevWrite(t)
    \/ \E w \in Watchdogs :
          \/ Tick(w)
          \/ WSelect(w)
          \/ WTick(w)
          \/ WEnableRet(w)
          \/ WQuit(w)
          \/ WDisableRet(w)
          \/ DevLock(w)
          \/ DevWrite(w)

\* the next step of the foreground caller inside an operation, other than
\* taking the transport lock
FgStep == LoadRet \/ PlayRet \/ ReadbackRet \/ FgRet \/ DevWrite(FG) \/ DevRead(FG)

\* the next step of the second caller inside its Device call
OtStep == OtherRet \/ DevWrite(OT) \/ DevClose(OT)

\* the second caller takes the controller lock
OtEnter == OtherStopPlaying \/ OtherStopAutoTickle \/ OtherStartAutoTickle

\* the two callers are scheduled, sync.Mutex hands a lock to a caller that
\* waits for it, and a transfer made by a goroutine returns; nothing is
\* assumed about the ticker or about the goroutines outside a transfer
ContendFairness ==
    /\ WF_vars(FgStep)
    /\ SF_vars(DevLock(FG))
    /\ WF_vars(OtStep)
    /\ SF_vars(DevLock(OT))
    /\ SF_vars(OtEnter)
    /\ \A t \in Watchdogs \cup {MT} : WF_vars(DevWrite(t))

\* a generation 2 device, whose pattern lines take two buffers under one lock
ContendInit == Init /\ gen = 2

ContendSpec == ContendInit /\ [][ContendNext]_vars /\ ContendFairness

\* the foreground caller is inside a call that does not end by design
BlocksByDesign == fg.op = "PlayPatternBlocking" /\ fg.rep = 0

\* C37: the controller lock and the transport lock never deadlock.  The
\* controller lock is held by one caller at most, and only by a caller inside
\* an operation; a caller that waits for the controller lock holds no
\* transport lock and is in no Device call; the controller lock is taken only
\* by a caller that is in no Device call; the goroutines change neither
\* caller's hold of the controller lock.  Hence every operation of the
\* foreground caller other than PlayPatternBlocking with repeat count 0, and
\* the operation of the second caller, eventually returns.
LocksNeverDeadlock ==
    /\ [](~(cmu /\ OtHoldsControllerLock))
    /\ [](cmu => fg.op # "idle")
    /\ [](other.pc = "lock" => dv[OT].pc = "idle")
    /\ [][(~cmu /\ cmu') => dv[FG].pc = "idle"]_vars
    /\ [][(~OtHoldsControllerLock /\ OtHoldsControllerLock') => dv[OT].pc = "idle"]_vars
    /\ [][(cmu' # cmu) => fg' # fg]_vars
    /\ [](CSCount <= 1)
    /\ (fg.op # "idle" /\ ~BlocksByDesign) ~> (fg.op = "idle")
    /\ (other.pc \in {"lock", "dev"}) ~> (other.pc = "done")

\* C37 witness: the second caller waits for the controller lock, which the
\* foreground caller holds inside PlayPattern while it waits for the transport
\* lock, which a watchdog holds
LockChainContended ==
    /\ other.pc = "lock"
    /\ cmu
    /\ fg.op = "PlayPattern"
    /\ dv[FG].pc = "lock"
    /\ \E w \in Watchdogs : HoldsTransportLock(w)

(* ------------------------------------------------------------------ *)
(* C38: calls of a second caller while PlayPatternBlocking waits      *)
(* ------------------------------------------------------------------ *)
\* PlayPatternBlocking is past its PlayPattern step: it reads the lines back
\* or is blocked for ever (its final sleep is part of its return step)
PlayBlockingWaits ==
    /\ fg.op = "PlayPatternBlocking"
    /\ fg.pc \in {"readback", "blocked"}

BlockNext ==
    \/ nwd = 0 /\ StartAutoTickle(0, 0, FALSE)
    \/ \E r \in ContendRepeats :
          lastCall.op \notin LockingOps /\ PlayPatternBlocking(1, 1, r, StatesOfLen(1))
    \/ \E op \in OtherOps : PlayBlockingWaits /\ OtherCall(op)
    \/ OtherStopPlaying
    \/ OtherStopAutoTickle
    \/ OtherStartAutoTickle
    \/ OtherRet
    \/ LoadRet
    \/ PlayRet
    \/ ReadbackRet
    \/ DevRead(FG)
    \/ DevClose(OT)
    \/ \E t \in {FG, OT} : DevLock(t) \/ DevWrite(t)
    \/ \E w \in Watchdogs : WatchdogStep(w)
    \/ DevPanic(FG)

BlockSpec == ContendInit /\ [][BlockNext]_vars /\ ContendFairness

\* the operation of the second caller has done all its work: it returned, or
\* its Device call returned
OtherCompleted == other.pc = "done" \/ (other.pc = "dev" /\ dv[OT].pc = "ret")

\* C38: PlayPatternBlocking holds the controller lock at no point after its
\* PlayPattern step returned, while it reads lines back or is blocked; a
\* StopPlaying, StopAutoTickle, StartAutoTickle or Close that a second caller
\* makes meanwhile completes, and with success.
BlockingHoldsNoControllerLock ==
    /\ [](PlayBlockingWaits => ~cmu)
    /\ [](other.pc = "done" => other.ret = "ok")
    /\ (other.pc \in {"lock", "dev"}) ~> OtherCompleted

\* C38 witness: StopPlaying of the second caller returned success while
\* PlayPatternBlocking with repeat count 0 is blocked and a watchdog runs
StopPlayingBesideBlocked ==
    /\ fg.pc = "blocked"
    /\ other.op = "StopPlaying"
    /\ other.pc = "done"
    /\ other.ret = "ok"
    /\ \E w \in Watchdogs : WatchdogRuns(w)

====
